---- MODULE Spec2Model ----
(***************************************************************************)
(* DonationBox: the GPIO event pipeline and the donation correlation.     *)
(*                                                                         *)
(* Two specifications share this module.                                   *)
(*   Spec        the correlation engine: the button and coin handlers, the *)
(*               debounce tasks they create, the correlation attempt, the  *)
(*               donation writer and the WebSocket broadcast.              *)
(*   SpecBridge  the EventBridge: queue_event from a callback thread, the  *)
(*               loop's callback list, the bounded asyncio.Queue and the   *)
(*               consumer loop.                                            *)
(*                                                                         *)
(* Time is counted in ticks of one debounce period (debounce_seconds = 2.0 *)
(* in both components).  An await is modelled as a program counter of the  *)
(* task: the task sits at the await until an action resumes it, and the    *)
(* code up to the next await runs in that action.                          *)
(***************************************************************************)
EXTENDS Integers, Sequences, FiniteSets, TLC

(***************************************************************************)
(* Bounds of the model.                                                    *)
(***************************************************************************)
\* events handled by the dispatcher in one behaviour
MaxEvents == 3
\* the clock stops here
MaxTime == 4
\* events the hardware thread offers to the bridge in one behaviour
MaxQueued == 4
\* calls of EventBridge.start in one behaviour
MaxStarts == 2
\* asyncio.Queue(maxsize=...): 100 in the code, two places here so that the
\* queue fills up
maxsize == 2
\* calls of WebSocketService.broadcast_json in one behaviour of SpecHub
MaxBroadcasts == 2
\* calls of update_vote that change the categories, in one behaviour
MaxEdits == 2
\* rows of the donations table in SpecVote
MaxRows == 3
\* rows of the donations table in SpecTotals
MaxStored == 3
\* calls of GPIOComponent.on in one behaviour of SpecRegistry
MaxOn == 3
\* calls of GPIOComponent.emit_event
MaxEmits == 2

(***************************************************************************)
(* Configuration of the components.                                        *)
(***************************************************************************)
\* ChooseCategoryButton debounce_seconds: 2.0 s, one tick
T_button_debounce == 1
\* DonationCoinValidator debounce_seconds: the default of 2.0 s, one tick
\* (setup_components passes 10.0; the two tasks can wake in the same tick
\* with either value)
T_coin_debounce == 1
\* time-to-live of a correlation slot, in ticks; the default of 30 s (15
\* ticks) is shortened to two ticks so that a slot can expire before MaxTime
T_ttl == 2

\* the buttons setup_components registers (representing_option)
Buttons == {1, 2}
\* pulse counts the validator reports; 6 is not in the table
PulseCounts == {3, 6}
\* the display clients
WebSockets == {"ws1"}
\* every websocket that connects in a behaviour of SpecHub
Clients == {"ws1", "ws2", "ws3"}
\* the component objects of SpecRegistry and the component_id of each: o1
\* and o2 are two objects constructed with the same id
Objs == {"o1", "o2", "o3"}
Ids == {"button", "coin"}
component_id(o) == IF o = "o3" THEN "coin" ELSE "button"
EventTypes == {"button_pressed", "button_released"}
None == "None"
\* the categories that exist, and the lists of two of them a vote can be
\* bound to (a category is bound to a vote once)
CategoryIds == {7, 9, 11}
Bindings == {<<a, b>> : a, b \in CategoryIds} \ {<<a, a>> : a \in CategoryIds}
Positions == {0, 1}
\* category lists the active vote can have, in position order
CategoryLists == {<<7, 9>>, <<11>>}

NoVal == [none |-> TRUE]

VARIABLES
  now,                    \* time.time()
  chosen_category,        \* state_store["chosen_category"]
  total_donation_cents,   \* state_store["total_donation_cents"]
  tasks,                  \* every debounce task created so far
  pending_category_task,  \* state_store["pending_category_task"]
  pending_donation_task,  \* DonationCoinValidator._pending_donation_task
  handler,                \* the handler the dispatcher is awaiting
  donations,              \* the rows of the donations table
  connections,            \* WebSocketService._connections
  vote,                   \* the categories of the active vote
  hist,                   \* history of the run, read by the properties only
  loop,                   \* EventBridge._loop is set
  event_queue,            \* EventBridge._event_queue
  ready,                  \* callbacks scheduled by call_soon_threadsafe
  consumer,               \* EventBridge._task and where it is
  starts,                 \* number of start() calls that created a queue
  produced,               \* number of queue_event calls so far
  dropped,                \* events that never reached a live queue
  accepted,               \* events put_nowait has stored
  dispatched,             \* events the dispatcher was called with
  idleOffers,             \* events offered while no consumer task existed
  raisedFor,              \* events whose dispatch ended with an exception
  broadcasts,             \* the broadcast_json calls made so far
  opened,                 \* the websockets connect() has accepted so far
  gone,                   \* who removed which websocket from _connections
  components,             \* ComponentRegistry._components
  comp,                   \* the fields of every GPIOComponent object
  reg,                    \* ComponentRegistry._event_queue and _loop are set
  regQueue,               \* the events in the queue given to registry.start
  regOrder,               \* the GPIOComponent.on calls, in the order made
  dispatch,               \* the event the dispatcher is handling
  taken,                  \* the events the dispatcher has dequeued
  invocations,            \* the handler calls and returns, in order
  result,                 \* the last call of the registry and its outcome
  request,                \* the debug donation request in flight
  response,               \* what the last debug donation request was answered
  totals,                 \* what the last get_totals_for_vote returned
  votes,                  \* the committed rows of the votes table
  categories,             \* the committed rows of the categories table
  session,                \* the AsyncSession of every vote request
  answer,                 \* how the last vote request ended
  active,                 \* what the last get_active_by_time returned
  _store,                 \* StateStore._store[key][nested_key]
  _lock,                  \* the thread that owns StateStore._lock
  thread,                 \* where every thread is in increment_nested
  tally,                  \* the initial value plus the amounts of all calls
  lifespan,               \* how far the shutdown of lifespan has come
  vote_category,          \* the committed rows of the vote_category table
  txn,                    \* the session of the vote update in flight
  migration               \* the last vote request that wrote bindings

corrVars == <<now, chosen_category, total_donation_cents, tasks,
              pending_category_task, pending_donation_task, handler,
              donations, connections, vote, hist>>
bridgeVars == <<loop, event_queue, ready, consumer, starts, produced,
                dropped, accepted, dispatched, idleOffers, raisedFor>>
hubVars == <<broadcasts, opened, gone>>
regVars == <<components, comp, reg, regQueue, regOrder, dispatch, taken,
             invocations, result>>
voteVars == <<request, response, totals>>
pollVars == <<votes, categories, session, answer, active>>
threadVars == <<_store, _lock, thread, tally>>
lifeVars == <<lifespan>>
migVars == <<vote_category, txn, migration>>
otherVars == <<pollVars, threadVars, lifeVars, migVars>>
\* what the actions of each part leave alone
nonCorrVars == <<bridgeVars, hubVars, regVars, voteVars, otherVars>>
nonBridgeVars == <<corrVars, hubVars, regVars, voteVars, otherVars>>
nonRegVars == <<corrVars, bridgeVars, hubVars, voteVars, otherVars>>
vars == <<corrVars, bridgeVars, hubVars, regVars, voteVars, otherVars>>

(***************************************************************************)
(* Helpers.                                                                *)
(***************************************************************************)
RECURSIVE SumAmounts(_)
SumAmounts(rows) ==
  IF rows = <<>> THEN 0 ELSE Head(rows).amount + SumAmounts(Tail(rows))

\* asyncio.Task.done(): finished, failed with an exception, or cancelled
TaskDone(t) == t.status # "pending"

\* puls_to_cent with the pulse count taken as the cents
puls_to_cent_pulses(n) == n

\* the pulse table of DonationCoinValidator: dict.get(pulse_count, 0)
puls_to_cent(n) ==
  CASE n = 1 -> 10
    [] n = 2 -> 20
    [] n = 3 -> 50
    [] n = 4 -> 100
    [] n = 5 -> 200
    [] OTHER -> 0

\* OnCancel as it would be if the `except Exception` around the broadcast
\* caught the cancellation: the task goes on after the send
OnCancel_swallowed(pc) == IF pc = "bc_send" THEN "pending" ELSE "cancelled"

\* What task.cancel() does to a task suspended at the await `pc`: every
\* await of both debounce coroutines sits under handlers that catch
\* Exception or ValueError, or that re-raise CancelledError; CancelledError
\* is a BaseException, so it ends the task wherever it is thrown.
OnCancel(pc) == "cancelled"

\* task.cancel() on task i of the table ts
CancelTask(ts, i) ==
  [ts EXCEPT ![i].status = OnCancel(ts[i].pc), ![i].cancelReq = TRUE]

\* CancelPending without the cancel() call
CancelPending_never(ts, p) == ts

\* `if pending_task and not pending_task.done(): pending_task.cancel()`
CancelPending(ts, p) ==
  IF p # 0 /\ ~TaskDone(ts[p]) THEN CancelTask(ts, p) ELSE ts

\* asyncio.create_task of a debounce coroutine, sleeping for `debounce`
NewTask(kind, option, debounce) ==
  [kind |-> kind, status |-> "pending", pc |-> "sleep", option |-> option,
   created |-> now, wake |-> now + debounce, cancelReq |-> FALSE,
   wrote |-> FALSE, wroteAt |-> 0, bcast |-> FALSE, late |-> FALSE,
   att |-> NoVal, row |-> 0, snap |-> {}, failed |-> {}]

\* a task that writes a slot or commits a row: `late` remembers that it did
\* so after task.cancel() had been called on it
Mark(t) == [t EXCEPT !.late = @ \/ t.cancelReq]

\* a coroutine that returned, or ended with an exception
Finish(t, status) ==
  [t EXCEPT !.status = status, !.pc = "end", !.att = NoVal, !.snap = {},
            !.failed = {}]

\* the events the dispatcher has taken so far
EventsHandled == Len(tasks) + (IF handler.pc = "idle" THEN 0 ELSE 1)

Idle == [pc |-> "idle", snap |-> {}, failed |-> {}]

\* SendJson without the try/except around the send
SendJson_raises(ws, ok, failed) == [raised |-> ~ok, failed |-> failed]

\* WebSocketService.broadcast_json, one iteration of the loop over the
\* snapshot: a send that raises is caught and the client is remembered as
\* disconnected; nothing is raised to the caller
SendJson(ws, ok, failed) ==
  [raised |-> FALSE, failed |-> IF ok THEN failed ELSE failed \cup {ws}]

\* AfterBroadcast without the removal of the clients whose send failed
AfterBroadcast_keep(failed) == connections

\* WebSocketService.broadcast_json, after the loop over the snapshot:
\* `self._connections -= disconnected`
AfterBroadcast(failed) == connections \ failed

(***************************************************************************)
(* Init: the state after startup, one active vote with two categories, one *)
(* display client connected.                                               *)
(***************************************************************************)
InitCorr ==
  /\ now = 0
  /\ chosen_category = NoVal
  /\ total_donation_cents = NoVal
  /\ tasks = <<>>
  /\ pending_category_task = 0
  /\ pending_donation_task = 0
  /\ handler = Idle
  /\ donations = <<>>
  /\ connections = WebSockets
  /\ vote = <<7, 9>>
  /\ hist = [coinCents |-> 0, nCoin |-> 0, pulse_count |-> 0,
             lastWriter |-> 0,
             ttlExpired |-> FALSE, staleReset |-> FALSE,
             commitFailed |-> FALSE, edited |-> 0,
             failedAtts |-> {}]

InitBridge ==
  /\ loop = FALSE
  /\ event_queue = NoVal
  /\ ready = <<>>
  /\ consumer = NoVal
  /\ starts = 0
  /\ produced = 0
  /\ dropped = {}
  /\ accepted = <<>>
  /\ dispatched = <<>>
  /\ idleOffers = {}
  /\ raisedFor = {}

(***************************************************************************)
(* The clock.                                                              *)
(***************************************************************************)
\* A due asyncio.sleep returns and a database call or a send completes in
\* less than a tick, so the clock advances only while every live task sleeps
\* and the dispatcher awaits no handler.
Tick ==
  /\ UNCHANGED nonCorrVars
  /\ now < MaxTime
  /\ handler.pc = "idle"
  /\ \A i \in 1..Len(tasks) :
        tasks[i].status = "pending" =>
          tasks[i].pc = "sleep" /\ now < tasks[i].wake
  /\ now' = now + 1
  /\ UNCHANGED <<chosen_category, total_donation_cents, tasks,
                 pending_category_task, pending_donation_task, handler,
                 donations, connections, vote, hist>>

(***************************************************************************)
(* ChooseCategoryButton.handle_press                                       *)
(***************************************************************************)
handle_press(b) ==
  /\ UNCHANGED nonCorrVars
  /\ handler.pc = "idle"
  /\ EventsHandled < MaxEvents
  /\ tasks' = Append(CancelPending(tasks, pending_category_task),
                     NewTask("category", b, T_button_debounce))
  /\ pending_category_task' = Len(tasks) + 1
  /\ UNCHANGED <<now, chosen_category, total_donation_cents,
                 pending_donation_task, handler, donations, connections,
                 vote, hist>>

(***************************************************************************)
(* DonationCoinValidator.handle_coin_insertion                             *)
(***************************************************************************)
\* the end of the handler: cancel the pending donation task, create a new one
CoinSchedule ==
  /\ tasks' = Append(CancelPending(tasks, pending_donation_task),
                     NewTask("coin", 0, T_coin_debounce))
  /\ pending_donation_task' = Len(tasks) + 1
  /\ handler' = Idle

\* up to the first send of the money_inserted broadcast
handle_coin_insertion(n) ==
  /\ UNCHANGED nonCorrVars
  /\ handler.pc = "idle"
  /\ EventsHandled < MaxEvents
  /\ LET amount_cents == puls_to_cent(n)
         current_total == IF total_donation_cents = NoVal THEN 0
                          ELSE total_donation_cents.amount
         new_total == current_total + amount_cents
     IN  /\ total_donation_cents' = [amount |-> new_total, timestamp |-> now]
         /\ hist' = [hist EXCEPT !.coinCents = @ + amount_cents,
                                 !.nCoin = @ + 1, !.pulse_count = n]
  /\ IF connections = {}
       THEN CoinSchedule
       ELSE /\ handler' = [pc |-> "send", snap |-> connections, failed |-> {}]
            /\ UNCHANGED <<tasks, pending_donation_task>>
  /\ UNCHANGED <<now, chosen_category, pending_category_task, donations,
                 connections, vote>>

\* one `await websocket.send_json(data)` of the money_inserted broadcast
CoinSend(ws, ok) ==
  /\ UNCHANGED nonCorrVars
  /\ handler.pc = "send"
  /\ ws \in handler.snap
  /\ LET snap == handler.snap \ {ws}
         r == SendJson(ws, ok, handler.failed)
     IN  IF r.raised
           THEN \* `except Exception` of the handler: logged, the handler goes on
                /\ CoinSchedule
                /\ UNCHANGED connections
           ELSE IF snap = {}
           THEN /\ connections' = AfterBroadcast(r.failed)
                /\ CoinSchedule
           ELSE /\ handler' = [handler EXCEPT !.snap = snap, !.failed = r.failed]
                /\ UNCHANGED <<connections, tasks, pending_donation_task>>
  /\ UNCHANGED <<now, chosen_category, total_donation_cents,
                 pending_category_task, donations, vote, hist>>

(***************************************************************************)
(* The correlation attempt: DonationService                                *)
(* .process_pending_donation_from_state and the writer it calls.  Both     *)
(* debounce coroutines call it; its source is not part of the tree, so it  *)
(* follows the documented procedure: read and check the two slots, resolve *)
(* the active vote (database read), commit (database write), publish       *)
(* donation_created, clear both slots.                                     *)
(***************************************************************************)
\* ClearedAmount with the old amount kept under the new timestamp
ClearedAmount_kept(at) ==
  [amount |-> IF total_donation_cents = NoVal THEN 0
              ELSE total_donation_cents.amount,
   timestamp |-> at]

\* step 3: "reset amount to (0, now)"
ClearedAmount(at) == [amount |-> 0, timestamp |-> at]

\* SlotExpired with the limit one tick late
SlotExpired_late(slot, at) == slot # NoVal /\ at - slot.timestamp > T_ttl + 1

SlotExpired(slot, at) == slot # NoVal /\ at - slot.timestamp > T_ttl

\* steps 1-3, which run without an await; t is the task record as the
\* caller leaves it
AttemptStart(i, t) ==
  LET catBad == chosen_category = NoVal \/ SlotExpired(chosen_category, now)
      amtBad == \/ total_donation_cents = NoVal
                \/ total_donation_cents.amount <= 0
                \/ SlotExpired(total_donation_cents, now)
  IN  IF catBad
        THEN /\ chosen_category' = NoVal
             /\ UNCHANGED total_donation_cents
             /\ tasks' = [tasks EXCEPT ![i] = Finish(Mark(t), "done")]
             /\ hist' = [hist EXCEPT
                           !.ttlExpired = @ \/ SlotExpired(chosen_category, now)]
        ELSE IF amtBad
        THEN /\ total_donation_cents' = ClearedAmount(now)
             /\ UNCHANGED chosen_category
             /\ tasks' = [tasks EXCEPT ![i] = Finish(Mark(t), "done")]
             /\ hist' = [hist EXCEPT
                           !.ttlExpired = @ \/ (/\ total_donation_cents # NoVal
                                                /\ total_donation_cents.amount > 0)]
        ELSE /\ UNCHANGED <<chosen_category, total_donation_cents>>
             /\ tasks' = [tasks EXCEPT ![i] =
                  [t EXCEPT !.pc = "att_poll", !.snap = {}, !.failed = {},
                            !.att = [now |-> now,
                                     position |-> chosen_category.position,
                                     set_at |-> chosen_category.timestamp,
                                     cents |-> total_donation_cents.amount,
                                     updated_at |-> total_donation_cents.timestamp,
                                     selWriter |-> hist.lastWriter,
                                     lastCoin |-> hist.nCoin,
                                     category_id |-> 0]]]
             /\ UNCHANGED hist

\* a task that is suspended at the await `pc`
At(i, kind, pc) ==
  /\ i \in 1..Len(tasks)
  /\ tasks[i].kind = kind
  /\ tasks[i].status = "pending"
  /\ tasks[i].pc = pc

InAttempt(i, pc) ==
  /\ i \in 1..Len(tasks)
  /\ tasks[i].status = "pending"
  /\ tasks[i].pc = pc

\* step 4: the active vote has been read
AttPoll(i) ==
  /\ UNCHANGED nonCorrVars
  /\ InAttempt(i, "att_poll")
  /\ LET a == tasks[i].att
     IN  IF vote = <<>> \/ a.position >= Len(vote)
           THEN \* the selection is stale: both slots are reset, and the
                \* ValueError handler of the caller deletes chosen_category
                /\ chosen_category' = NoVal
                /\ total_donation_cents' = ClearedAmount(a.now)
                /\ tasks' = [tasks EXCEPT ![i] = Finish(Mark(@), "done")]
                /\ hist' = [hist EXCEPT !.staleReset = TRUE]
           ELSE /\ tasks' = [tasks EXCEPT ![i].pc = "att_commit",
                               ![i].att.category_id = vote[a.position + 1]]
                /\ UNCHANGED <<chosen_category, total_donation_cents, hist>>
  /\ UNCHANGED <<now, pending_category_task, pending_donation_task, handler,
                 donations, connections, vote>>

\* the row DonationRepository.create adds, with the attempt that made it
NewRow(i, a) ==
  [vote_id |-> 1, category_id |-> a.category_id, amount |-> a.cents,
   task |-> i, position |-> a.position, attNow |-> a.now,
   set_at |-> a.set_at, updated_at |-> a.updated_at,
   selWriter |-> a.selWriter, lastCoin |-> a.lastCoin,
   writerAtCommit |-> hist.lastWriter, afterCancel |-> tasks[i].cancelReq,
   envelopes |-> 0, envelope |-> NoVal, sendFailed |-> FALSE]

\* step 5, DonationRepository.create: `await self.commit()` has returned
\* (ok) or raised a storage error (~ok)
AttCommit(i, ok) ==
  /\ UNCHANGED nonCorrVars
  /\ InAttempt(i, "att_commit")
  /\ LET a == tasks[i].att
     IN  IF ~ok
           THEN \* the exception leaves the coroutine; the slots stay
                /\ tasks' = [tasks EXCEPT ![i] = Finish(@, "failed")]
                /\ hist' = [hist EXCEPT !.commitFailed = TRUE,
                              !.failedAtts = @ \cup
                                 {[position |-> a.position, cents |-> a.cents]}]
                /\ UNCHANGED <<donations, chosen_category>>
           ELSE IF vote = <<>> \/ \A k \in 1..Len(vote) : vote[k] # a.category_id
           THEN \* the writer finds no binding: ValueError, the caller
                \* deletes chosen_category
                /\ tasks' = [tasks EXCEPT ![i] = Finish(Mark(@), "done")]
                /\ chosen_category' = NoVal
                /\ hist' = [hist EXCEPT !.staleReset = TRUE]
                /\ UNCHANGED donations
           ELSE /\ donations' = Append(donations, NewRow(i, a))
                /\ tasks' = [tasks EXCEPT ![i].pc = "att_refresh",
                               ![i].row = Len(donations) + 1,
                               ![i].late = @ \/ tasks[i].cancelReq]
                /\ UNCHANGED <<chosen_category, hist>>
  /\ UNCHANGED <<now, total_donation_cents, pending_category_task,
                 pending_donation_task, handler, connections, vote>>

\* the end of a successful attempt: "on success, clear both slots"
AttemptFinish(i) ==
  /\ chosen_category' = NoVal
  /\ total_donation_cents' = NoVal

\* `await self.refresh(donation)` and the totals have been read; the
\* donation_created envelope is built and broadcast_json starts
AttRefresh(i) ==
  /\ UNCHANGED nonCorrVars
  /\ InAttempt(i, "att_refresh")
  /\ LET r == tasks[i].row
         env == [vote_id |-> donations[r].vote_id,
                 category_id |-> donations[r].category_id,
                 amount_cents |-> donations[r].amount]
     IN  donations' = [donations EXCEPT ![r].envelopes = @ + 1,
                                        ![r].envelope = env]
  /\ IF connections = {}
       THEN /\ AttemptFinish(i)
            /\ tasks' = [tasks EXCEPT ![i] = Finish(Mark(@), "done")]
       ELSE /\ tasks' = [tasks EXCEPT ![i].pc = "att_send",
                                      ![i].snap = connections,
                                      ![i].failed = {}]
            /\ UNCHANGED <<chosen_category, total_donation_cents>>
  /\ UNCHANGED <<now, pending_category_task, pending_donation_task, handler,
                 connections, vote, hist>>

\* one `await websocket.send_json(data)` of the donation_created broadcast
AttSend(i, ws, ok) ==
  /\ UNCHANGED nonCorrVars
  /\ InAttempt(i, "att_send")
  /\ ws \in tasks[i].snap
  /\ LET snap == tasks[i].snap \ {ws}
         r == SendJson(ws, ok, tasks[i].failed)
     IN  /\ donations' = [donations EXCEPT ![tasks[i].row].sendFailed = @ \/ ~ok]
         /\ IF r.raised
              THEN \* the exception leaves the attempt and the coroutine
                   /\ tasks' = [tasks EXCEPT ![i] = Finish(@, "failed")]
                   /\ UNCHANGED <<connections, chosen_category,
                                  total_donation_cents>>
              ELSE IF snap = {}
              THEN /\ connections' = AfterBroadcast(r.failed)
                   /\ AttemptFinish(i)
                   /\ tasks' = [tasks EXCEPT ![i] = Finish(Mark(@), "done")]
              ELSE /\ tasks' = [tasks EXCEPT ![i].snap = snap,
                                             ![i].failed = r.failed]
                   /\ UNCHANGED <<connections, chosen_category,
                                  total_donation_cents>>
  /\ UNCHANGED <<now, pending_category_task, pending_donation_task, handler,
                 vote, hist>>

(***************************************************************************)
(* ChooseCategoryButton._update_category_after_debounce                    *)
(***************************************************************************)
\* asyncio.sleep returned: the slot is written, the active vote is asked for
CatWake(i) ==
  /\ UNCHANGED nonCorrVars
  /\ At(i, "category", "sleep")
  /\ now >= tasks[i].wake
  /\ chosen_category' = [position |-> tasks[i].option - 1, timestamp |-> now]
  /\ tasks' = [tasks EXCEPT ![i].pc = "bc_poll", ![i].wrote = TRUE,
                            ![i].wroteAt = now,
                            ![i].late = @ \/ tasks[i].cancelReq]
  /\ hist' = [hist EXCEPT !.lastWriter = i]
  /\ UNCHANGED <<now, total_donation_cents, pending_category_task,
                 pending_donation_task, handler, donations, connections, vote>>

\* get_active_vote returned: category_chosen is broadcast when the position
\* is bound, then the attempt starts
CatBcPoll(i) ==
  /\ UNCHANGED nonCorrVars
  /\ At(i, "category", "bc_poll")
  /\ LET position == tasks[i].option - 1
         bound == vote # <<>> /\ 0 <= position /\ position < Len(vote)
     IN  IF bound /\ connections # {}
           THEN /\ tasks' = [tasks EXCEPT ![i].pc = "bc_send",
                                          ![i].bcast = TRUE,
                                          ![i].snap = connections,
                                          ![i].failed = {}]
                /\ UNCHANGED <<chosen_category, total_donation_cents, hist>>
           ELSE AttemptStart(i, [tasks[i] EXCEPT !.bcast = bound])
  /\ UNCHANGED <<now, pending_category_task, pending_donation_task, handler,
                 donations, connections, vote>>

\* one `await websocket.send_json(data)` of the category_chosen broadcast
CatBcSend(i, ws, ok) ==
  /\ UNCHANGED nonCorrVars
  /\ At(i, "category", "bc_send")
  /\ ws \in tasks[i].snap
  /\ LET snap == tasks[i].snap \ {ws}
         r == SendJson(ws, ok, tasks[i].failed)
     IN  IF r.raised
           THEN \* `except Exception` around the broadcast: logged
                /\ AttemptStart(i, tasks[i])
                /\ UNCHANGED connections
           ELSE IF snap = {}
           THEN /\ connections' = AfterBroadcast(r.failed)
                /\ AttemptStart(i, tasks[i])
           ELSE /\ tasks' = [tasks EXCEPT ![i].snap = snap,
                                          ![i].failed = r.failed]
                /\ UNCHANGED <<connections, chosen_category,
                               total_donation_cents, hist>>
  /\ UNCHANGED <<now, pending_category_task, pending_donation_task, handler,
                 donations, vote>>

(***************************************************************************)
(* DonationCoinValidator._create_donation_after_debounce                   *)
(***************************************************************************)
CoinWake(i) ==
  /\ UNCHANGED nonCorrVars
  /\ At(i, "coin", "sleep")
  /\ now >= tasks[i].wake
  /\ AttemptStart(i, tasks[i])
  /\ UNCHANGED <<now, pending_category_task, pending_donation_task, handler,
                 donations, connections, vote>>

(***************************************************************************)
(* The operator edits the categories of the active vote (update_vote).     *)
(***************************************************************************)
\* the mapping as it would be if the old positions beyond the end of the new
\* list were left out
_build_category_mapping_by_position_prefix(old, new) ==
  LET Changed(i) == i <= Len(new) /\ old[i] # new[i]
      idx == SelectSeq([i \in 1..Len(old) |-> i], Changed)
  IN  [k \in 1..Len(idx) |-> <<old[idx[k]], new[idx[k]]>>]

\* VotingService._build_category_mapping_by_position: the dict as the list
\* of its entries <<old id, new id>> in insertion order, one for every
\* position whose id changes; an old list longer than the new one maps its
\* extra positions to the last new id
_build_category_mapping_by_position(old, new) ==
  LET to(i) == IF i <= Len(new) THEN new[i] ELSE new[Len(new)]
      Changed(i) == old[i] # to(i)
      idx == SelectSeq([i \in 1..Len(old) |-> i], Changed)
  IN  [k \in 1..Len(idx) |-> <<old[idx[k]], to(idx[k])>>]

\* the WHERE clause as it would be without the vote
OfVoteAndCategory_any_vote(row, vote_id, category_id) ==
  row.category_id = category_id

\* `.where(Donation.vote_id == vote_id)
\*  .where(Donation.category_id == old_category_id)`
OfVoteAndCategory(row, vote_id, category_id) ==
  row.vote_id = vote_id /\ row.category_id = category_id

\* DonationRepository.reassign_categories_for_vote: one UPDATE per entry of
\* the mapping, each run on the rows the one before it has left
RECURSIVE reassign_categories_for_vote(_, _, _)
reassign_categories_for_vote(rows, vote_id, mapping) ==
  IF mapping = <<>> THEN rows
  ELSE LET old == Head(mapping)[1]
           new == Head(mapping)[2]
           updated == [r \in 1..Len(rows) |->
                         IF OfVoteAndCategory(rows[r], vote_id, old)
                         THEN [rows[r] EXCEPT !.category_id = new]
                         ELSE rows[r]]
       IN  reassign_categories_for_vote(updated, vote_id, Tail(mapping))

\* VotingService._update_vote_with_category_migration for the active vote
\* (id 1): the donations are migrated and the categories replaced in one
\* transaction
UpdateVote(cats) ==
  /\ UNCHANGED nonCorrVars
  /\ hist.edited < MaxEdits
  /\ cats # <<>>
  /\ cats # vote
  /\ vote' = cats
  /\ donations' = reassign_categories_for_vote(donations, 1,
                     _build_category_mapping_by_position(vote, cats))
  /\ hist' = [hist EXCEPT !.edited = @ + 1]
  /\ UNCHANGED <<now, chosen_category, total_donation_cents, tasks,
                 pending_category_task, pending_donation_task, handler,
                 connections>>

Tasks == 1..MaxEvents

Next ==
  \/ Tick
  \/ \E b \in Buttons : handle_press(b)
  \/ \E n \in PulseCounts : handle_coin_insertion(n)
  \/ \E ws \in WebSockets, ok \in BOOLEAN : CoinSend(ws, ok)
  \/ \E i \in Tasks : CatWake(i)
  \/ \E i \in Tasks : CatBcPoll(i)
  \/ \E i \in Tasks, ws \in WebSockets, ok \in BOOLEAN : CatBcSend(i, ws, ok)
  \/ \E i \in Tasks : CoinWake(i)
  \/ \E i \in Tasks : AttPoll(i)
  \/ \E i \in Tasks, ok \in BOOLEAN : AttCommit(i, ok)
  \/ \E i \in Tasks : AttRefresh(i)
  \/ \E i \in Tasks, ws \in WebSockets, ok \in BOOLEAN : AttSend(i, ws, ok)

InitHub ==
  /\ broadcasts = <<>>
  /\ opened = WebSockets
  /\ gone = {}

\* ComponentRegistry.__init__ and GPIOComponent.__init__ of every object
InitReg ==
  /\ components = [id \in Ids |-> None]
  /\ comp = [o \in Objs |->
               [started |-> FALSE, callback |-> FALSE,
                handlers |-> [t \in EventTypes |-> <<>>]]]
  /\ reg = [live |-> FALSE, everStarted |-> FALSE]
  /\ regQueue = <<>>
  /\ regOrder = <<>>
  /\ dispatch = NoVal
  /\ taken = <<>>
  /\ invocations = <<>>
  /\ result = [n |-> 0, op |-> "none", arg |-> None, out |-> None]

InitVote ==
  /\ request = NoVal
  /\ response = NoVal
  /\ totals = NoVal

\* the requests that can be in flight at the same time
Requests == {"r1", "r2"}

\* the category that exists before the first request
Seeded == {"Tierschutz"}

\* no vote request is in flight and none was answered
NoRequests ==
  /\ session = [r \in Requests |-> NoVal]
  /\ answer = [n |-> 0, op |-> "none", status |-> 0]
  /\ active = NoVal

InitPolls ==
  /\ votes = <<>>
  /\ categories = Seeded
  /\ NoRequests

\* the nested dict of a key the store does not hold
Absent == [present |-> FALSE, value |-> 0]

\* no thread has called the state store
QuietThreads ==
  /\ _store = Absent
  /\ _lock = None
  /\ thread = NoVal
  /\ tally = 0

\* the application has started and runs
Running == lifespan = "running"

\* no vote request that writes bindings has been made
NoMigration ==
  /\ vote_category = {}
  /\ txn = NoVal
  /\ migration = NoVal

InitOther == InitPolls /\ QuietThreads /\ Running /\ NoMigration

Init == InitCorr /\ InitBridge /\ InitHub /\ InitReg /\ InitVote /\ InitOther

Spec == Init /\ [][Next]_vars

(***************************************************************************)
(* EventBridge.  Events are numbered in the order of the queue_event calls *)
(* of the one hardware thread.  A queue is known by the number of the      *)
(* start() call that created it: a callback scheduled before a stop() is   *)
(* bound to the queue of that time.                                        *)
(***************************************************************************)
\* asyncio.Queue.put_nowait at the front of the queue instead of the back
put_nowait_front(items, event) == <<event>> \o items

\* asyncio.Queue.put_nowait on a queue that is not full
put_nowait(items, event) == Append(items, event)

\* Full of a queue created without a maxsize
Full_never(items) == FALSE

\* asyncio.Queue.full() of the queue created with maxsize: put_nowait
\* raises QueueFull and stores nothing
Full(items) == Len(items) >= maxsize

\* AlreadyRunning as it would be without the check of start
AlreadyRunning_never == FALSE

\* `if self._task is not None` of start: the bridge is already running
AlreadyRunning == consumer # NoVal

\* EventBridge.start; on a bridge that is already running it returns at once
\* and changes nothing
start ==
  /\ UNCHANGED nonBridgeVars
  /\ ~AlreadyRunning
  /\ starts < MaxStarts
  /\ loop' = TRUE
  /\ starts' = starts + 1
  /\ event_queue' = [id |-> starts + 1, items |-> <<>>]
  /\ consumer' = [pc |-> "get", event |-> 0]
  /\ UNCHANGED <<ready, produced, dropped, accepted, dispatched, idleOffers,
                 raisedFor>>

\* Stopped with the loop and the queue left in place
Stopped_kept == [loop |-> loop, event_queue |-> event_queue]

\* EventBridge.stop, the finally block: `self._event_queue = None` and
\* `self._loop = None`
Stopped == [loop |-> FALSE, event_queue |-> NoVal]

\* EventBridge.stop: the consumer task is cancelled wherever it waits
stop ==
  /\ UNCHANGED nonBridgeVars
  /\ consumer # NoVal
  /\ consumer' = NoVal
  /\ event_queue' = Stopped.event_queue
  /\ loop' = Stopped.loop
  /\ dropped' = dropped \cup {event_queue.items[k] : k \in 1..Len(event_queue.items)}
  /\ UNCHANGED <<ready, starts, produced, accepted, dispatched, idleOffers,
                 raisedFor>>

\* EventBridge.queue_event, called on the hardware thread
queue_event ==
  /\ UNCHANGED nonBridgeVars
  /\ produced < MaxQueued
  /\ produced' = produced + 1
  /\ idleOffers' = IF consumer = NoVal THEN idleOffers \cup {produced + 1}
                                       ELSE idleOffers
  /\ IF ~loop \/ event_queue = NoVal
       THEN \* "Bridge not started - dropping event"
            /\ dropped' = dropped \cup {produced + 1}
            /\ UNCHANGED ready
       ELSE /\ ready' = Append(ready, [event |-> produced + 1,
                                       queue |-> event_queue.id])
            /\ UNCHANGED dropped
  /\ UNCHANGED <<loop, event_queue, consumer, starts, accepted, dispatched,
                 raisedFor>>

\* the loop runs the oldest scheduled callback: put_nowait(event) on the
\* queue the callback is bound to
RunCallback ==
  /\ UNCHANGED nonBridgeVars
  /\ ready # <<>>
  /\ ready' = Tail(ready)
  /\ LET cb == Head(ready)
     IN  IF \/ event_queue = NoVal
            \/ event_queue.id # cb.queue
            \/ Full(event_queue.items)
           THEN \* the queue is gone, or QueueFull is raised in the callback
                /\ dropped' = dropped \cup {cb.event}
                /\ UNCHANGED <<event_queue, accepted>>
           ELSE /\ event_queue' =
                     [event_queue EXCEPT !.items = put_nowait(@, cb.event)]
                /\ accepted' = Append(accepted, cb.event)
                /\ UNCHANGED dropped
  /\ UNCHANGED <<loop, consumer, starts, produced, dispatched, idleOffers,
                 raisedFor>>

\* _consumer_loop: queue.get() returned an event, the dispatcher is called
ConsumerGet ==
  /\ UNCHANGED nonBridgeVars
  /\ consumer # NoVal
  /\ consumer.pc = "get"
  /\ event_queue.items # <<>>
  /\ LET event == Head(event_queue.items)
     IN  /\ event_queue' = [event_queue EXCEPT !.items = Tail(@)]
         /\ consumer' = [pc |-> "dispatch", event |-> event]
         /\ dispatched' = Append(dispatched, event)
  /\ UNCHANGED <<loop, ready, starts, produced, dropped, accepted,
                 idleOffers, raisedFor>>

\* OnDispatchError as it would be without the `except Exception` inside
\* the while loop: the exception ends the consumer coroutine
OnDispatchError_fatal == [pc |-> "ended", event |-> 0]

\* _consumer_loop, `except Exception` inside the while loop: the exception
\* of the dispatcher is logged and the loop goes on to the next get
OnDispatchError == [pc |-> "get", event |-> 0]

\* _consumer_loop: the awaited dispatcher returned (task_done, next get),
\* or an exception of a handler came out of it
DispatchDone(raised) ==
  /\ UNCHANGED nonBridgeVars
  /\ consumer # NoVal
  /\ consumer.pc = "dispatch"
  /\ consumer' = IF raised THEN OnDispatchError ELSE [pc |-> "get", event |-> 0]
  /\ raisedFor' = IF raised THEN raisedFor \cup {consumer.event} ELSE raisedFor
  /\ UNCHANGED <<loop, event_queue, ready, starts, produced, dropped,
                 accepted, dispatched, idleOffers>>

NextBridge ==
  \/ start
  \/ stop
  \/ queue_event
  \/ RunCallback
  \/ ConsumerGet
  \/ \E raised \in BOOLEAN : DispatchDone(raised)

SpecBridge == Init /\ [][NextBridge]_vars

\* The bridge with a consumer task that the event loop schedules whenever it
\* can run and with handler invocations that end: a get on a queue that has
\* an item returns, and the awaited dispatcher returns or raises.
SpecBridgeFair ==
  /\ Init
  /\ [][NextBridge]_vars
  /\ WF_vars(ConsumerGet)
  /\ WF_vars(\E raised \in BOOLEAN : DispatchDone(raised))

(***************************************************************************)
(* WebSocketService: connect, disconnect and broadcast_json.  Several      *)
(* broadcasts can be in flight at once, one per coroutine that called      *)
(* broadcast_json; each is suspended at `await websocket.send_json(data)`. *)
(***************************************************************************)
hubRest == <<now, chosen_category, total_donation_cents, tasks,
             pending_category_task, pending_donation_task, handler,
             donations, vote, hist, bridgeVars, regVars, voteVars,
             otherVars>>

\* the broadcasts suspended at a send
Sending == {b \in 1..Len(broadcasts) : broadcasts[b].pc = "send"}

\* WebSocketService.connect: accept the websocket, then add it to the set
connect(ws) ==
  /\ ws \notin opened
  /\ opened' = opened \cup {ws}
  /\ connections' = connections \cup {ws}
  /\ UNCHANGED <<broadcasts, gone>>
  /\ UNCHANGED hubRest

\* WebSocketService.disconnect, called once by the route when the listen
\* loop of the websocket ends: `self._connections.discard(websocket)`
disconnect(ws) ==
  /\ ws \in opened
  /\ [ws |-> ws, by |-> 0] \notin gone
  /\ connections' = connections \ {ws}
  /\ gone' = gone \cup {[ws |-> ws, by |-> 0]}
  /\ UNCHANGED <<broadcasts, opened>>
  /\ UNCHANGED hubRest

\* WebSocketService.broadcast_json up to the first send: the snapshot of
\* the set is taken, and an empty snapshot returns at once
BroadcastStart ==
  /\ Len(broadcasts) < MaxBroadcasts
  /\ broadcasts' = Append(broadcasts,
       [pc |-> IF connections = {} THEN "done" ELSE "send",
        snap |-> connections, todo |-> connections, failed |-> {},
        got |-> [ws \in Clients |-> 0], connAtReturn |-> connections])
  /\ UNCHANGED <<connections, opened, gone>>
  /\ UNCHANGED hubRest

\* one `await websocket.send_json(data)` of broadcast b returns or raises;
\* the set is iterated in an order the program does not choose.  After the
\* last send the failed clients are removed and broadcast_json returns.
BroadcastSend(b, ws, ok) ==
  /\ b \in Sending
  /\ ws \in broadcasts[b].todo
  /\ LET r == SendJson(ws, ok, broadcasts[b].failed)
         todo == broadcasts[b].todo \ {ws}
         got == IF ok THEN [broadcasts[b].got EXCEPT ![ws] = @ + 1]
                      ELSE broadcasts[b].got
         after == IF todo = {} /\ r.failed # {}
                  THEN AfterBroadcast(r.failed) ELSE connections
     IN  /\ connections' = after
         /\ broadcasts' = [broadcasts EXCEPT
               ![b] = [pc |-> IF todo = {} THEN "done" ELSE "send",
                       snap |-> @.snap, todo |-> todo, failed |-> r.failed,
                       got |-> got, connAtReturn |-> after]]
         /\ gone' = IF todo = {}
                    THEN gone \cup {[ws |-> w, by |-> b] :
                                      w \in r.failed \cap connections}
                    ELSE gone
  /\ UNCHANGED opened
  /\ UNCHANGED hubRest

NextHub ==
  \/ \E ws \in Clients : connect(ws)
  \/ \E ws \in Clients : disconnect(ws)
  \/ BroadcastStart
  \/ \E b \in 1..MaxBroadcasts, ws \in Clients, ok \in BOOLEAN :
       BroadcastSend(b, ws, ok)

SpecHub == Init /\ [][NextHub]_vars

(***************************************************************************)
(* ComponentRegistry and the components it holds.  Handlers are numbered   *)
(* in the order of the `on` calls that registered them.  The dispatcher    *)
(* that resolves the component of an event and awaits its handlers one     *)
(* after the other follows section 4.3 of the specification.               *)
(***************************************************************************)
\* On with the new handler put in front of the list
On_front(handlers, h) == <<h>> \o handlers

\* GPIOComponent.on: `self._handlers[event_type].append(handler)`
On(handlers, h) == Append(handlers, h)

\* GPIOComponent.get_handlers: `self._handlers.get(event_type, [])`
get_handlers(o, t) == comp[o].handlers[t]

\* Taken as it would be if register did not look the id up
Taken_never(id) == FALSE

\* ComponentRegistry.register: `component.component_id in self._components`
Taken(id) == components[id] # None

\* the outcomes of a component's start() and stop(): it returns, or the
\* hardware call in it raises; start() of the coin validator can also raise
\* after it has set _started
StartOutcomes(o) ==
  IF o = "o3" THEN {"ok", "raised", "raised_late"} ELSE {"ok", "raised"}
StopOutcomes == {"ok", "raised"}

\* GPIOButton.start, GPIOCoinValidator.start: the value of _started after
\* the call
ComponentStart(started, outcome) ==
  IF started THEN TRUE ELSE outcome \in {"ok", "raised_late"}

\* ComponentStop as it would be if _started were cleared before the
\* hardware is released
ComponentStop_first(started, outcome) == FALSE

\* GPIOButton.stop, GPIOCoinValidator.stop: the value of _started after the
\* call; an exception of close() is logged and _started is left set
ComponentStop(started, outcome) ==
  IF ~started THEN FALSE ELSE outcome = "raised"

\* the objects held by the registry
Registered == {o \in Objs : components[component_id(o)] = o}

\* a call of the registry's interface and what it returned or raised; n
\* tells a call from the one before it
Call(op, arg, out) == [n |-> 1 - result.n, op |-> op, arg |-> arg, out |-> out]

\* GPIOComponent.on, called while the component is set up, before it is
\* registered
on(o, t) ==
  /\ Len(regOrder) < MaxOn
  /\ ~comp[o].callback
  /\ LET h == Len(regOrder) + 1
     IN  /\ comp' = [comp EXCEPT ![o].handlers[t] = On(@, h)]
         /\ regOrder' = Append(regOrder, [obj |-> o, type |-> t, h |-> h])
  /\ UNCHANGED <<components, reg, regQueue, dispatch, taken, invocations,
                 result>>
  /\ UNCHANGED nonRegVars

\* ComponentRegistry.register
register(o) ==
  /\ IF Taken(component_id(o))
       THEN /\ result' = Call("register", o, "ValueError")
            /\ UNCHANGED <<components, comp>>
       ELSE /\ comp' = [comp EXCEPT ![o].callback = TRUE]
            /\ components' = [components EXCEPT ![component_id(o)] = o]
            /\ result' = Call("register", o, "ok")
  /\ UNCHANGED <<reg, regQueue, regOrder, dispatch, taken, invocations>>
  /\ UNCHANGED nonRegVars

\* ComponentRegistry.unregister; `outcome` is what component.stop() does if
\* it is called
unregister(id, outcome) ==
  /\ components[id] = None => outcome = "ok"
  /\ LET o == components[id]
     IN  IF o = None
           THEN /\ result' = Call("unregister", id, FALSE)
                /\ UNCHANGED <<components, comp>>
           ELSE /\ components' = [components EXCEPT ![id] = None]
                /\ comp' = [comp EXCEPT ![o].started =
                              IF @ THEN ComponentStop(@, outcome) ELSE @]
                /\ result' = Call("unregister", id, TRUE)
  /\ UNCHANGED <<reg, regQueue, regOrder, dispatch, taken, invocations>>
  /\ UNCHANGED nonRegVars

\* ComponentRegistry.start: the queue and the loop are stored, then every
\* registered component is started; an exception of start() is logged
registry_start(outcomes) ==
  /\ \A o \in Objs : outcomes[o] \in StartOutcomes(o)
  /\ reg' = [live |-> TRUE, everStarted |-> TRUE]
  /\ comp' = [o \in Objs |->
                IF o \in Registered
                THEN [comp[o] EXCEPT !.started = ComponentStart(@, outcomes[o])]
                ELSE comp[o]]
  /\ result' = Call("start", outcomes, "ok")
  /\ UNCHANGED <<components, regQueue, regOrder, dispatch, taken, invocations>>
  /\ UNCHANGED nonRegVars

\* ComponentRegistry.stop: every registered component is stopped, an
\* exception of stop() is logged; then the queue and the loop are cleared
registry_stop(outcomes) ==
  /\ \A o \in Objs : comp[o].started \/ outcomes[o] = "ok"
  /\ reg' = [reg EXCEPT !.live = FALSE]
  /\ comp' = [o \in Objs |->
                IF o \in Registered
                THEN [comp[o] EXCEPT !.started = ComponentStop(@, outcomes[o])]
                ELSE comp[o]]
  /\ result' = Call("stop", outcomes, "ok")
  /\ UNCHANGED <<components, regQueue, regOrder, dispatch, taken, invocations>>
  /\ UNCHANGED nonRegVars

\* GPIOComponent.emit_event on the hardware thread, and the callback
\* ComponentRegistry._queue_event with the put_nowait it schedules: without
\* a callback, or while the registry has no queue, the event is dropped
emit_event(o, t) ==
  /\ Len(taken) + Len(regQueue) < MaxEmits
  /\ comp[o].callback
  /\ reg.live
  /\ regQueue' = Append(regQueue, [component_id |-> component_id(o),
                                   event_type |-> t])
  /\ UNCHANGED <<components, comp, reg, regOrder, dispatch, taken,
                 invocations, result>>
  /\ UNCHANGED nonRegVars

DispatcherFree_always == TRUE

\* the dispatcher is back at the queue read: every handler of the event
\* before has been awaited
DispatcherFree == dispatch = NoVal

\* the dispatcher takes the next event, resolves its component and looks up
\* the handlers; an unknown component or an empty list discards the event
DispatchTake ==
  /\ DispatcherFree
  /\ regQueue # <<>>
  /\ LET event == Head(regQueue)
         o == components[event.component_id]
         hs == IF o = None THEN <<>> ELSE get_handlers(o, event.event_type)
     IN  /\ taken' = Append(taken, [component_id |-> event.component_id,
                                    event_type |-> event.event_type,
                                    obj |-> o])
         /\ dispatch' = IF hs = <<>> THEN NoVal
                        ELSE [event |-> Len(taken) + 1, todo |-> hs,
                              running |-> 0]
  /\ regQueue' = Tail(regQueue)
  /\ UNCHANGED <<components, comp, reg, regOrder, invocations, result>>
  /\ UNCHANGED nonRegVars

\* the dispatcher calls the next handler of the event and awaits it
HandlerCall ==
  /\ dispatch # NoVal
  /\ dispatch.running = 0
  /\ LET h == Head(dispatch.todo)
     IN  /\ dispatch' = [dispatch EXCEPT !.running = h, !.todo = Tail(@)]
         /\ invocations' = Append(invocations,
              [event |-> dispatch.event, h |-> h, ph |-> "call"])
  /\ UNCHANGED <<components, comp, reg, regQueue, regOrder, taken, result>>
  /\ UNCHANGED nonRegVars

\* the awaited handler returns or raises; an exception is logged and the
\* dispatcher goes on with the next handler, or with the next event
HandlerReturn(ok) ==
  /\ dispatch # NoVal
  /\ dispatch.running # 0
  /\ invocations' = Append(invocations,
       [event |-> dispatch.event, h |-> dispatch.running,
        ph |-> IF ok THEN "return" ELSE "raise"])
  /\ dispatch' = IF dispatch.todo = <<>> THEN NoVal
                 ELSE [dispatch EXCEPT !.running = 0]
  /\ UNCHANGED <<components, comp, reg, regQueue, regOrder, taken, result>>
  /\ UNCHANGED nonRegVars

\* the outcomes of the start() or stop() calls of one pass over the
\* registered components
Passes(outs) ==
  {f \in [Objs -> outs] : \A o \in Objs \ Registered : f[o] = "ok"}

\* the registry and the life cycle of its components
NextRegistry ==
  \/ \E o \in Objs : register(o)
  \/ \E id \in Ids, outcome \in StopOutcomes : unregister(id, outcome)
  \/ \E outcomes \in Passes({"ok", "raised", "raised_late"}) :
       registry_start(outcomes)
  \/ \E outcomes \in Passes(StopOutcomes) : registry_stop(outcomes)

SpecRegistry == Init /\ [][NextRegistry]_vars

\* the components that take part in SpecDispatch
DispatchObjs == {"o1", "o3"}

\* the registry with components whose start succeeds, the events they emit
\* and the dispatcher
NextDispatch ==
  \/ \E o \in DispatchObjs, t \in EventTypes : on(o, t)
  \/ \E o \in DispatchObjs : register(o)
  \/ ~reg.live /\ registry_start([o \in Objs |-> "ok"])
  \/ \E o \in DispatchObjs, t \in EventTypes : emit_event(o, t)
  \/ DispatchTake
  \/ HandlerCall
  \/ \E ok \in BOOLEAN : HandlerReturn(ok)

SpecDispatch == Init /\ [][NextDispatch]_vars

(***************************************************************************)
(* Vote edits and the debug donation endpoint.  The active vote has id 1;  *)
(* the table also holds donations of another vote, id 2.  A row remembers  *)
(* the position it was given for, the category id it was committed with    *)
(* and the category that was bound at that position when it was committed. *)
(***************************************************************************)
voteRest == <<now, chosen_category, total_donation_cents, tasks,
              pending_category_task, pending_donation_task, handler,
              connections, bridgeVars, hubVars, regVars, otherVars>>

\* a row of the donations table
Row(vote_id, position, category_id, bound, viaRequest) ==
  [vote_id |-> vote_id, category_id |-> category_id, amount |-> 50,
   position |-> position, committed_id |-> category_id,
   boundAtCommit |-> bound, viaRequest |-> viaRequest]

\* the rows a table can hold at the start: donations given at a position of
\* the vote they belong to, for the category bound there
StoredRows(cats) ==
  {Row(v, p, cats[p + 1], cats[p + 1], FALSE) : v \in {1, 2}, p \in Positions}

\* Bound as it would be if the writer did not look at the binding
Bound_any(cats, category_id) == TRUE

\* the writer's check that the category is bound to the vote (see
\* `except ValueError` in send_donation)
Bound(cats, category_id) == \E k \in 1..Len(cats) : cats[k] = category_id

InitMigration ==
  /\ now = 0
  /\ chosen_category = NoVal
  /\ total_donation_cents = NoVal
  /\ tasks = <<>>
  /\ pending_category_task = 0
  /\ pending_donation_task = 0
  /\ handler = Idle
  /\ connections = WebSockets
  /\ vote \in Bindings
  /\ donations \in {<<>>} \cup {<<r>> : r \in StoredRows(vote)}
                   \cup {<<r1, r2>> : r1, r2 \in StoredRows(vote)}
  /\ hist = [coinCents |-> 0, nCoin |-> 0, pulse_count |-> 0,
             lastWriter |-> 0,
             ttlExpired |-> FALSE, staleReset |-> FALSE,
             commitFailed |-> FALSE, edited |-> 0,
             failedAtts |-> {}]
  /\ InitBridge /\ InitHub /\ InitReg /\ InitVote /\ InitOther

\* send_donation up to its second await: get_active_vote has returned and
\* the position is resolved to the id of the category bound there
SendResolve(position) ==
  /\ request = NoVal
  /\ Len(donations) < MaxRows
  /\ position < Len(vote)
  /\ request' = [position |-> position, category_id |-> vote[position + 1]]
  /\ UNCHANGED <<donations, vote, hist, response, totals>>
  /\ UNCHANGED voteRest

\* send_donation, create_donation_for_active_vote has returned the new row
\* or raised ValueError (answered with 422)
SendCreate ==
  /\ request # NoVal
  /\ request' = NoVal
  /\ IF Bound(vote, request.category_id)
       THEN /\ donations' = Append(donations,
              Row(1, request.position, request.category_id,
                  IF request.position < Len(vote)
                  THEN vote[request.position + 1] ELSE 0,
                  TRUE))
            /\ response' = [status |-> 200, category_id |-> request.category_id]
       ELSE /\ UNCHANGED donations
            /\ response' = [status |-> 422, category_id |-> request.category_id]
  /\ UNCHANGED <<vote, hist, totals>>
  /\ UNCHANGED voteRest

NextVote ==
  \/ \E cats \in Bindings : UpdateVote(cats)
  \/ \E position \in Positions : SendResolve(position)
  \/ SendCreate

SpecVote == InitMigration /\ [][NextVote]_vars

(***************************************************************************)
(* DonationRepository.get_totals_for_vote, read as a function of the       *)
(* categories bound to the vote and of the rows of the table.  The table   *)
(* can hold rows of a vote for a category that is not bound to it: the     *)
(* donations table refers to votes and to categories, not to the binding.  *)
(***************************************************************************)
\* the corr variables of a program that handles no GPIO event
QuietCorr ==
  /\ now = 0
  /\ chosen_category = NoVal
  /\ total_donation_cents = NoVal
  /\ tasks = <<>>
  /\ pending_category_task = 0
  /\ pending_donation_task = 0
  /\ handler = Idle
  /\ connections = WebSockets
  /\ hist = [coinCents |-> 0, nCoin |-> 0, pulse_count |-> 0,
             lastWriter |-> 0,
             ttlExpired |-> FALSE, staleReset |-> FALSE,
             commitFailed |-> FALSE, edited |-> 0,
             failedAtts |-> {}]

\* the amounts a stored donation can have
Amounts == {20, 50}

\* a stored donation of any vote for any category
AnyRows ==
  {[vote_id |-> v, category_id |-> c, amount |-> a] :
     v \in {1, 2}, c \in CategoryIds, a \in Amounts}

\* the sequences over S of length 0 to n
RECURSIVE SeqsUpTo(_, _)
SeqsUpTo(S, n) ==
  IF n = 0 THEN {<<>>}
  ELSE LET shorter == SeqsUpTo(S, n - 1)
       IN  shorter \cup {Append(q, x) : q \in shorter, x \in S}

\* InCurrent without the restriction to the current categories
InCurrent_all(current_category_ids, category_id) == TRUE

\* `Donation.category_id.in_(current_category_ids)`
InCurrent(current_category_ids, category_id) ==
  \E k \in 1..Len(current_category_ids) :
    current_category_ids[k] = category_id

\* DonationRepository.get_totals_for_vote on the bindings `cats` of the vote
\* and the table `rows`
get_totals_for_vote(cats, rows, vote_id) ==
  IF cats = <<>>
    THEN [vote_id |-> vote_id, total_amount_cents |-> 0, by_category |-> <<>>]
    ELSE LET Counted(row) == row.vote_id = vote_id
                             /\ InCurrent(cats, row.category_id)
             OfCat(c) == LET Is(row) == Counted(row) /\ row.category_id = c
                         IN  SelectSeq(rows, Is)
         IN  [vote_id |-> vote_id,
              total_amount_cents |-> SumAmounts(SelectSeq(rows, Counted)),
              by_category |->
                [k \in 1..Len(cats) |->
                   [category_id |-> cats[k],
                    amount_cents |-> SumAmounts(OfCat(cats[k])),
                    count |-> Len(OfCat(cats[k]))]]]

InitTotals ==
  /\ QuietCorr
  /\ vote \in Bindings \cup {<<>>} \cup {<<c>> : c \in CategoryIds}
  /\ donations \in SeqsUpTo(AnyRows, MaxStored - 1)
  /\ InitBridge /\ InitHub /\ InitReg /\ InitVote /\ InitOther

\* a donation is stored: DonationRepository.create
StoreRow(row) ==
  /\ Len(donations) < MaxStored
  /\ donations' = Append(donations, row)
  /\ UNCHANGED <<vote, hist, request, response, totals>>
  /\ UNCHANGED voteRest

\* the totals of the active vote are read
ReadTotals ==
  /\ totals' = get_totals_for_vote(vote, donations, 1)
  /\ UNCHANGED <<donations, vote, hist, request, response>>
  /\ UNCHANGED voteRest

NextTotals ==
  \/ \E row \in AnyRows : StoreRow(row)
  \/ ReadTotals

SpecTotals == InitTotals /\ [][NextTotals]_vars

(***************************************************************************)
(* The votes table.  VotingService.create_vote and update_vote run over    *)
(* VoteRepository with the AsyncSession that get_db gives the request:     *)
(* the session commits when the service commits and is rolled back when    *)
(* the request ends with an exception.  A vote's id is its index in        *)
(* `votes`; a row is the pair of its start_time and end_time.  An update   *)
(* request is suspended at `await self.get_by_id(vote_id)` between the row *)
(* it has read and the UPDATE it flushes, so two requests can hold the     *)
(* same row.  CategoryRepository.get_or_create commits the category it     *)
(* creates on its own.                                                     *)
(***************************************************************************)
pollRest == <<corrVars, bridgeVars, hubVars, regVars, voteVars, threadVars,
              lifeVars, migVars>>

\* the instants a start_time or an end_time can be
MaxInstant == 2
\* the votes the requests create
MaxCreated == 1
\* the votes the table holds when it is only read
MaxPolls == 3

Instants == 0..MaxInstant

\* the columns update_vote can be asked to change
Columns == {"start_time", "end_time"}

\* the categories a request names that may not exist yet; {} is a request
\* that names none
NameSets == {{}, {"Umwelt"}}

Window(start_time, end_time) ==
  [start_time |-> start_time, end_time |-> end_time]

ValidWindow_weak(start_time, end_time) == start_time <= end_time

\* `if start_time >= end_time: raise ValueError` does not fire
ValidWindow(start_time, end_time) == start_time < end_time

\* the rows a vote can have been created with
Windows ==
  {w \in {Window(s, e) : s, e \in Instants} :
     ValidWindow(w.start_time, w.end_time)}

\* the next answer of the API
Answered(op, status) == [n |-> 1 - answer.n, op |-> op, status |-> status]

\* POST /votes: _resolve_categories commits the categories that do not
\* exist yet, VoteRepository.create validates the window before it adds the
\* row and commits
create_vote(r, start_time, end_time, names) ==
  /\ session[r] = NoVal
  /\ Len(votes) < MaxCreated
  /\ categories' = categories \cup names
  /\ IF ValidWindow(start_time, end_time)
     THEN /\ votes' = Append(votes, Window(start_time, end_time))
          /\ answer' = Answered("create_vote", 201)
     ELSE /\ votes' = votes
          /\ answer' = Answered("create_vote", 400)
  /\ UNCHANGED <<session, active>>
  /\ UNCHANGED pollRest

\* PUT /votes/{vote_id} up to the row get_by_id has loaded into the
\* session; `given` are the columns the request carries.  The session keeps
\* the object with the request's values assigned and, as modified, the
\* columns whose value differs from the loaded one.
update_vote(r, vote_id, given, start_time, end_time, names) ==
  /\ session[r] = NoVal
  /\ IF vote_id \notin DOMAIN votes
     THEN /\ answer' = Answered("update_vote", 404)
          /\ UNCHANGED session
     ELSE /\ session' =
               [session EXCEPT ![r] =
                  [vote_id |-> vote_id,
                   start_time |-> IF "start_time" \in given
                                  THEN start_time
                                  ELSE votes[vote_id].start_time,
                   end_time |-> IF "end_time" \in given
                                THEN end_time
                                ELSE votes[vote_id].end_time,
                   modified |->
                     {c \in given :
                        \/ c = "start_time"
                           /\ start_time # votes[vote_id].start_time
                        \/ c = "end_time"
                           /\ end_time # votes[vote_id].end_time},
                   names |-> names]]
          /\ UNCHANGED answer
  /\ UNCHANGED <<votes, categories, active>>
  /\ UNCHANGED pollRest

\* the rest of the update: the categories are resolved, the window of the
\* session's object is validated, the UPDATE of the modified columns is
\* flushed and committed; a ValueError ends the request and get_db rolls the
\* session back
update_flush(r) ==
  /\ session[r] # NoVal
  /\ LET s == session[r] IN
       /\ categories' = categories \cup s.names
       /\ IF ValidWindow(s.start_time, s.end_time)
          THEN /\ votes' =
                    [votes EXCEPT ![s.vote_id] =
                       Window(IF "start_time" \in s.modified
                              THEN s.start_time ELSE @.start_time,
                              IF "end_time" \in s.modified
                              THEN s.end_time ELSE @.end_time)]
               /\ answer' = Answered("update_vote", 200)
          ELSE /\ votes' = votes
               /\ answer' = Answered("update_vote", 400)
  /\ session' = [session EXCEPT ![r] = NoVal]
  /\ UNCHANGED active
  /\ UNCHANGED pollRest

NextPolls ==
  \/ \E r \in Requests, s, e \in Instants, names \in NameSets :
       create_vote(r, s, e, names)
  \/ \E r \in Requests, vote_id \in 1..MaxCreated, given \in SUBSET Columns,
        s, e \in Instants, names \in NameSets :
       update_vote(r, vote_id, given, s, e, names)
  \/ \E r \in Requests : update_flush(r)

SpecPolls == Init /\ [][NextPolls]_vars

\* the votes whose window contains the instant t
InWindow(rows, t) ==
  {i \in DOMAIN rows : rows[i].start_time <= t /\ t <= rows[i].end_time}

First_asc(ids) == CHOOSE i \in ids : \A j \in ids : i <= j

\* `.order_by(Vote.id.desc())` and `result.scalars().first()`
First(ids) == CHOOSE i \in ids : \A j \in ids : j <= i

\* VoteRepository.get_active_by_time with `now` = t; 0 is None
get_active_by_time(rows, t) ==
  IF InWindow(rows, t) = {} THEN 0 ELSE First(InWindow(rows, t))

\* GET of the active vote at the instant t
get_active_vote(t) ==
  /\ active' = [t |-> t, vote_id |-> get_active_by_time(votes, t)]
  /\ UNCHANGED <<votes, categories, session, answer>>
  /\ UNCHANGED pollRest

\* a table of up to MaxPolls votes, each created with a valid window
InitActive ==
  /\ InitCorr /\ InitBridge /\ InitHub /\ InitReg /\ InitVote
  /\ votes \in SeqsUpTo(Windows, MaxPolls)
  /\ categories = Seeded
  /\ NoRequests
  /\ QuietThreads
  /\ Running
  /\ NoMigration

NextActive == \E t \in Instants : get_active_vote(t)

SpecActive == InitActive /\ [][NextActive]_vars

(***************************************************************************)
(* StateStore.increment_nested called from several threads on the same     *)
(* key and nested key.  `_store` is the nested value under the key (not    *)
(* present while the key is absent, which is read as 0) and `_lock`        *)
(* the owner of the RLock.  A thread can be preempted between any two      *)
(* statements, so a call is the steps: acquire the lock, read the current  *)
(* value, store the new value, release the lock and return.                *)
(***************************************************************************)
threadRest == <<corrVars, bridgeVars, hubVars, regVars, voteVars, pollVars,
                lifeVars, migVars>>

\* the calls one thread makes
MaxCalls == 2
MaxUpdates == 1

Threads == {"t1", "t2", "t3"}

\* the `amount` arguments
Increments == {1, 2}

\* the nested value before the first call
InitialValues == {10}

\* `current_dict.get(nested_key, 0)`
current(stored) == IF stored.present THEN stored.value ELSE 0

Acquirable_always(t) == TRUE

\* `with self._lock:` can be entered by the thread t
Acquirable(t) == _lock = None \/ _lock = t

InitThreads ==
  /\ _store \in {Absent} \cup
               {[present |-> TRUE, value |-> v] : v \in InitialValues}
  /\ _lock = None
  /\ thread = [t \in Threads |->
                 [pc |-> "idle", calls |-> 0, amount |-> 0,
                  current_value |-> 0, new_value |-> 0, returned |-> 0]]
  /\ tally = current(_store)

\* a thread calls increment_nested(key, nested_key, amount)
increment_nested(t, amount) ==
  /\ thread[t].pc = "idle"
  /\ thread[t].calls < MaxCalls
  /\ thread' = [thread EXCEPT ![t].pc = "lock", ![t].amount = amount,
                              ![t].calls = @ + 1]
  /\ tally' = tally + amount
  /\ UNCHANGED <<_store, _lock>>
  /\ UNCHANGED threadRest

\* `with self._lock:`
Enter(t) ==
  /\ thread[t].pc = "lock"
  /\ Acquirable(t)
  /\ _lock' = t
  /\ thread' = [thread EXCEPT ![t].pc = "get"]
  /\ UNCHANGED <<_store, tally>>
  /\ UNCHANGED threadRest

\* `current_value = current_dict.get(nested_key, 0)`
GetCurrent(t) ==
  /\ thread[t].pc = "get"
  /\ thread' = [thread EXCEPT ![t].pc = "set",
                              ![t].current_value = current(_store)]
  /\ UNCHANGED <<_store, _lock, tally>>
  /\ UNCHANGED threadRest

\* `new_value = current_value + amount` and the value is stored
SetNew(t) ==
  /\ thread[t].pc = "set"
  /\ _store' = [present |-> TRUE,
                 value |-> thread[t].current_value + thread[t].amount]
  /\ thread' = [thread EXCEPT ![t].pc = "exit",
                              ![t].new_value = _store'.value]
  /\ UNCHANGED <<_lock, tally>>
  /\ UNCHANGED threadRest

\* `return new_value, current_timestamp` leaves the `with` block
Exit(t) ==
  /\ thread[t].pc = "exit"
  /\ _lock' = IF _lock = t THEN None ELSE _lock
  /\ thread' = [thread EXCEPT ![t].pc = "idle",
                              ![t].returned = thread[t].new_value]
  /\ UNCHANGED <<_store, tally>>
  /\ UNCHANGED threadRest

NextThreads ==
  \/ \E t \in Threads, amount \in Increments : increment_nested(t, amount)
  \/ \E t \in Threads : Enter(t)
  \/ \E t \in Threads : GetCurrent(t)
  \/ \E t \in Threads : SetNew(t)
  \/ \E t \in Threads : Exit(t)

InitStore ==
  /\ InitCorr /\ InitBridge /\ InitHub /\ InitReg /\ InitVote /\ InitPolls
  /\ InitThreads
  /\ Running
  /\ NoMigration

SpecThreads == InitStore /\ [][NextThreads]_vars

(***************************************************************************)
(* Shutdown: the part of lifespan after the `yield`.  It stops the event   *)
(* handler (the dispatcher task is cancelled and awaited), stops the GPIO  *)
(* registry and disposes the container.  The debounce tasks are tasks of   *)
(* their own on the same event loop; the loop runs them whenever the       *)
(* shutdown is suspended at one of its awaits and for as long as it is     *)
(* not closed.                                                             *)
(***************************************************************************)
lifeRest == <<bridgeVars, hubVars, regVars, voteVars, pollVars, threadVars,
              migVars>>

\* `await app.state.event_handler.stop()`: the dispatcher task is cancelled
\* together with the handler it is awaiting
StopEventHandler ==
  /\ lifespan = "running"
  /\ lifespan' = "stopping"
  /\ handler' = Idle
  /\ UNCHANGED <<now, chosen_category, total_donation_cents, tasks,
                 pending_category_task, pending_donation_task, donations,
                 connections, vote, hist>>
  /\ UNCHANGED lifeRest

\* `await registry.stop()` and `await container.dispose()`
StopRest ==
  /\ lifespan = "stopping"
  /\ lifespan' = "complete"
  /\ UNCHANGED corrVars
  /\ UNCHANGED lifeRest

NextShutdown ==
  \/ Tick
  \/ \E b \in Buttons : lifespan = "running" /\ handle_press(b)
  \/ \E n \in PulseCounts : lifespan = "running" /\ handle_coin_insertion(n)
  \/ \E ws \in WebSockets, ok \in BOOLEAN : CoinSend(ws, ok)
  \/ \E i \in Tasks : CatWake(i)
  \/ \E i \in Tasks : CatBcPoll(i)
  \/ \E i \in Tasks, ws \in WebSockets, ok \in BOOLEAN : CatBcSend(i, ws, ok)
  \/ \E i \in Tasks : CoinWake(i)
  \/ \E i \in Tasks : AttPoll(i)
  \/ \E i \in Tasks, ok \in BOOLEAN : AttCommit(i, ok)
  \/ \E i \in Tasks : AttRefresh(i)
  \/ \E i \in Tasks, ws \in WebSockets, ok \in BOOLEAN : AttSend(i, ws, ok)
  \/ StopEventHandler
  \/ StopRest

SpecShutdown == Init /\ [][NextShutdown]_vars

(***************************************************************************)
(* The correlation model with no active vote, or with an active vote that  *)
(* has one category only, so that the position of button 2 has no binding. *)
(***************************************************************************)
InitStale ==
  /\ now = 0
  /\ chosen_category = NoVal
  /\ total_donation_cents = NoVal
  /\ tasks = <<>>
  /\ pending_category_task = 0
  /\ pending_donation_task = 0
  /\ handler = Idle
  /\ donations = <<>>
  /\ connections = WebSockets
  /\ vote \in {<<>>, <<7>>}
  /\ hist = [coinCents |-> 0, nCoin |-> 0, pulse_count |-> 0,
             lastWriter |-> 0,
             ttlExpired |-> FALSE, staleReset |-> FALSE,
             commitFailed |-> FALSE, edited |-> 0,
             failedAtts |-> {}]
  /\ InitBridge /\ InitHub /\ InitReg /\ InitVote /\ InitOther

SpecStale == InitStale /\ [][Next]_vars

(***************************************************************************)
(* PUT /votes/{vote_id} with a category list, as the one database          *)
(* transaction it is: the session loads the vote with its categories in    *)
(* position order, the names are resolved to ids, the donations are        *)
(* reassigned (flushed, not committed), VoteRepository.update deletes the  *)
(* bindings of the vote, inserts the new ones with their positions and     *)
(* validates the window, and the service commits.  An exception leaves     *)
(* through the route, and get_db rolls the session back.  POST /votes      *)
(* inserts the bindings of a new vote the same way.  The database is       *)
(* SQLite, one writer at a time.                                           *)
(***************************************************************************)
migRest == <<bridgeVars, hubVars, regVars, voteVars, threadVars, lifeVars>>
migCorr == <<now, chosen_category, total_donation_cents, tasks,
             pending_category_task, pending_donation_task, handler,
             connections>>
migPoll == <<categories, session, answer, active>>

\* the category lists a vote can be bound to
OldLists ==
  {<<a>> : a \in CategoryIds} \cup Bindings
    \cup {l \in {<<a, b, c>> : a, b, c \in CategoryIds} :
            l[1] # l[2] /\ l[1] # l[3] /\ l[2] # l[3]}

\* the ids a request's category names resolve to; a name given twice
\* resolves to the same id twice
NewLists ==
  {<<>>} \cup {<<a>> : a \in CategoryIds}
         \cup {<<a, b>> : a, b \in CategoryIds}

\* the donations in the table before the request
MigrationRows ==
  {[vote_id |-> 1, category_id |-> c, amount |-> a] :
     c \in CategoryIds, a \in Amounts}
    \cup {[vote_id |-> 2, category_id |-> 7, amount |-> 50]}

\* enumerate as it would be if every row got the column's server default
enumerate_default(category_id_list) ==
  [i \in 1..Len(category_id_list) |->
     [position |-> 0, category_id |-> category_id_list[i]]]

\* `for position, category_id in enumerate(category_id_list)`
enumerate(category_id_list) ==
  [i \in 1..Len(category_id_list) |->
     [position |-> i - 1, category_id |-> category_id_list[i]]]

\* the first index of the list whose id occurs earlier in it, where the
\* INSERT violates the primary key (vote_id, category_id); Len + 1 if none
FirstDuplicate(category_id_list) ==
  LET Dup(i) == \E j \in 1..(i - 1) : category_id_list[j] = category_id_list[i]
      dups == {i \in 1..Len(category_id_list) : Dup(i)}
  IN  IF dups = {} THEN Len(category_id_list) + 1
      ELSE CHOOSE i \in dups : \A j \in dups : i <= j

\* the vote_category rows the INSERT loop has executed when it ends or
\* fails
Inserted(vote_id, category_id_list) ==
  LET e == enumerate(category_id_list)
  IN  {[vote_id |-> vote_id, category_id |-> e[i].category_id,
        position |-> e[i].position] :
         i \in 1..(FirstDuplicate(category_id_list) - 1)}

\* `delete(vote_category).where(vote_category.c.vote_id == vote_id)`
Deleted(table, vote_id) == {b \in table : b.vote_id # vote_id}

\* Vote.categories as the session loads it: the categories of the vote's
\* bindings in position order
RECURSIVE InPositionOrder(_)
InPositionOrder(rows) ==
  IF rows = {} THEN <<>>
  ELSE LET b == CHOOSE x \in rows :
                  \A y \in rows :
                    \/ x.position < y.position
                    \/ /\ x.position = y.position
                       /\ x.category_id <= y.category_id
       IN  <<b.category_id>> \o InPositionOrder(rows \ {b})

BindingsOf(table, vote_id) == {b \in table : b.vote_id = vote_id}

categories_of(table, vote_id) == InPositionOrder(BindingsOf(table, vote_id))

\* rollback as it would be if the session's flushed changes were kept
rollback_kept(stored, flushed) == flushed

\* `await session.rollback()` in get_db: the database keeps what was
\* committed and loses what the session has flushed
rollback(stored, flushed) == stored

\* how a request that writes bindings ended: what was stored before it,
\* what its session had flushed when it ended, and the answer
Ended(op, vote_id, new, rows, table, status) ==
  [op |-> op, vote_id |-> vote_id, new |-> new,
   old |-> categories_of(vote_category, vote_id),
   rowsBefore |-> donations, tableBefore |-> vote_category,
   votesBefore |-> votes,
   rows |-> rows, table |-> table, status |-> status]

InitMigrate ==
  /\ now = 0
  /\ chosen_category = NoVal
  /\ total_donation_cents = NoVal
  /\ tasks = <<>>
  /\ pending_category_task = 0
  /\ pending_donation_task = 0
  /\ handler = Idle
  /\ connections = WebSockets
  /\ \E old \in OldLists :
       /\ vote = old
       /\ vote_category = Inserted(1, old) \cup Inserted(2, <<9, 7>>)
  /\ donations \in {<<>>} \cup {<<r>> : r \in MigrationRows}
                   \cup {<<r1, r2>> : r1, r2 \in MigrationRows}
  /\ hist = [coinCents |-> 0, nCoin |-> 0, pulse_count |-> 0,
             lastWriter |-> 0,
             ttlExpired |-> FALSE, staleReset |-> FALSE,
             commitFailed |-> FALSE, edited |-> 0,
             failedAtts |-> {}]
  /\ InitBridge /\ InitHub /\ InitReg /\ InitVote
  /\ votes = <<Window(0, 1), Window(0, 1)>>
  /\ categories = Seeded
  /\ NoRequests
  /\ QuietThreads /\ Running
  /\ txn = NoVal
  /\ migration = NoVal

\* _update_vote_with_category_migration, steps 1 and 2: the vote is loaded
\* with its categories, the names are resolved; an empty list raises
\* ValueError before anything is written
update_load(vote_id, end_time, new) ==
  /\ txn = NoVal
  /\ hist.edited < MaxUpdates
  /\ vote_id \in DOMAIN votes
  /\ IF new = <<>>
     THEN /\ migration' = Ended("update_vote", vote_id, new,
                                donations, vote_category, 400)
          /\ hist' = [hist EXCEPT !.edited = @ + 1]
          /\ UNCHANGED txn
     ELSE /\ txn' = [pc |-> "resolved", vote_id |-> vote_id,
                     old |-> categories_of(vote_category, vote_id),
                     new |-> new, end_time |-> end_time,
                     rows |-> donations, table |-> vote_category]
          /\ UNCHANGED <<migration, hist>>
  /\ UNCHANGED <<donations, vote, vote_category, votes>>
  /\ UNCHANGED <<migCorr, migPoll, migRest>>

\* steps 3 and 4: the mapping is built from the positions and the donations
\* of the vote are reassigned and flushed
update_reassign ==
  /\ txn # NoVal
  /\ txn.pc = "resolved"
  /\ LET mapping == _build_category_mapping_by_position(txn.old, txn.new)
     IN  txn' = [txn EXCEPT
                   !.pc = "migrated",
                   !.rows = IF mapping # <<>>
                            THEN reassign_categories_for_vote(
                                   @, txn.vote_id, mapping)
                            ELSE @]
  /\ UNCHANGED <<donations, vote, vote_category, votes, migration, hist>>
  /\ UNCHANGED <<migCorr, migPoll, migRest>>

\* step 5, VoteRepository.update: end_time is assigned, the bindings of the
\* vote are deleted, the new ones inserted with their positions, the window
\* is validated.  The INSERT of an id the list already had raises
\* IntegrityError, an invalid window ValueError; the route answers 400 and
\* get_db rolls back.
update_bindings ==
  /\ txn # NoVal
  /\ txn.pc = "migrated"
  /\ LET table == Deleted(txn.table, txn.vote_id)
                    \cup Inserted(txn.vote_id, txn.new)
         ok == /\ FirstDuplicate(txn.new) > Len(txn.new)
               /\ ValidWindow(votes[txn.vote_id].start_time, txn.end_time)
     IN  IF ok
         THEN /\ txn' = [txn EXCEPT !.pc = "flushed", !.table = table]
              /\ UNCHANGED <<donations, vote, vote_category, migration, hist>>
         ELSE /\ txn' = NoVal
              /\ donations' = rollback(donations, txn.rows)
              /\ vote_category' = rollback(vote_category, table)
              /\ vote' = categories_of(vote_category', 1)
              /\ migration' = Ended("update_vote", txn.vote_id, txn.new,
                                    txn.rows, table, 400)
              /\ hist' = [hist EXCEPT !.edited = @ + 1]
  /\ UNCHANGED votes
  /\ UNCHANGED <<migCorr, migPoll, migRest>>

\* `await self.vote_repo.commit()`: the reassigned donations, the new
\* bindings and the new end_time are stored together
update_commit ==
  /\ txn # NoVal
  /\ txn.pc = "flushed"
  /\ txn' = NoVal
  /\ donations' = txn.rows
  /\ vote_category' = txn.table
  /\ vote' = categories_of(txn.table, 1)
  /\ votes' = [votes EXCEPT ![txn.vote_id].end_time = txn.end_time]
  /\ migration' = Ended("update_vote", txn.vote_id, txn.new,
                        txn.rows, txn.table, 200)
  /\ hist' = [hist EXCEPT !.edited = @ + 1]
  /\ UNCHANGED <<migCorr, migPoll, migRest>>

\* POST /votes, VoteRepository.create: the window is validated, the vote is
\* added and flushed, its bindings are inserted with their positions, and
\* the repository commits; an IntegrityError of an INSERT leaves through the
\* route and get_db rolls the vote and its bindings back
create(end_time, new) ==
  /\ txn = NoVal
  /\ hist.edited < MaxUpdates
  /\ LET vote_id == Len(votes) + 1
         table == vote_category \cup Inserted(vote_id, new)
         ok == /\ ValidWindow(0, end_time)
               /\ FirstDuplicate(new) > Len(new)
     IN  /\ votes' = IF ok THEN Append(votes, Window(0, end_time)) ELSE votes
         /\ vote_category' = IF ok THEN table
                             ELSE rollback(vote_category,
                                    IF ValidWindow(0, end_time)
                                    THEN table ELSE vote_category)
         /\ migration' = Ended("create_vote", vote_id, new, donations,
                               IF ValidWindow(0, end_time)
                               THEN table ELSE vote_category,
                               IF ok THEN 201 ELSE 400)
  /\ hist' = [hist EXCEPT !.edited = @ + 1]
  /\ UNCHANGED <<donations, vote, txn>>
  /\ UNCHANGED <<migCorr, migPoll, migRest>>

NextMigrate ==
  \/ \E end_time \in Instants, new \in NewLists :
       update_load(1, end_time, new)
  \/ update_reassign
  \/ update_bindings
  \/ update_commit
  \/ \E end_time \in Instants, new \in NewLists : create(end_time, new)

SpecMigrate == InitMigrate /\ [][NextMigrate]_vars

(***************************************************************************)
(* Properties.                                                             *)
(***************************************************************************)
Rows == 1..Len(donations)
TaskIds == 1..Len(tasks)

\* C1: one selected category (one write of chosen_category) together with
\* one accumulated pending amount (the coins handled up to some coin) gives
\* at most one donation row, under every interleaving of the two debounce
\* tasks.
C1_OneRowPerSelectionAndAmount ==
  \A r1, r2 \in Rows :
     (/\ donations[r1].selWriter = donations[r2].selWriter
      /\ donations[r1].lastCoin = donations[r2].lastCoin) => r1 = r2

\* C2: with no expiry and no stale-category reset, once both slots are empty
\* the committed amounts add up to the value of the coins handled.
C2_AmountConserved ==
  (/\ chosen_category = NoVal
   /\ total_donation_cents = NoVal
   /\ ~hist.ttlExpired
   /\ ~hist.staleReset) => SumAmounts(donations) = hist.coinCents

\* two presses, a before b, less than the debounce period apart
Superseded(a, b) ==
  /\ a < b
  /\ tasks[a].kind = "category"
  /\ tasks[b].kind = "category"
  /\ tasks[b].created - tasks[a].created < T_button_debounce

\* C3: when press a is followed by press b within the debounce period, a's
\* task never writes chosen_category and never broadcasts category_chosen;
\* b's position is written one debounce period after b's press, no donation
\* comes from a's selection and a donation from b's selection has b's
\* position.
C3_LastPressWins ==
  \A a, b \in TaskIds :
     Superseded(a, b) =>
       /\ ~tasks[a].wrote
       /\ ~tasks[a].bcast
       /\ tasks[b].wrote =>
            tasks[b].wroteAt = tasks[b].created + T_button_debounce
       /\ (hist.lastWriter = b /\ chosen_category # NoVal) =>
            chosen_category.position = tasks[b].option - 1
       /\ \A r \in Rows :
            /\ donations[r].selWriter # a
            /\ donations[r].selWriter = b =>
                 donations[r].position = tasks[b].option - 1

C3_Witness ==
  \E a, b \in TaskIds :
     /\ Superseded(a, b)
     /\ tasks[a].option # tasks[b].option
     /\ tasks[b].wrote
     /\ \E r \in Rows : donations[r].selWriter = b

\* C4: a task on which cancel() was called writes no slot and commits no
\* row afterwards, wherever it was suspended.
C4_CancelledTaskIsInert ==
  /\ \A i \in TaskIds : ~tasks[i].late
  /\ \A i \in TaskIds : tasks[i].cancelReq => tasks[i].status = "cancelled"
  /\ \A r \in Rows : ~donations[r].afterCancel

\* a task was cancelled while it awaited a send or the database, and
\* another one has committed a row
C4_Witness ==
  \E i \in TaskIds :
     /\ tasks[i].status = "cancelled"
     /\ tasks[i].pc \in {"bc_send", "att_poll", "att_commit"}
     /\ donations # <<>>

\* C5: no row comes from an attempt that ran when one of the two slots was
\* older than T_ttl.
C5_NoExpiredDonation ==
  \A r \in Rows :
     /\ donations[r].attNow - donations[r].set_at <= T_ttl
     /\ donations[r].attNow - donations[r].updated_at <= T_ttl

\* an attempt met an expired slot and no row was made
C5_Witness == hist.ttlExpired /\ donations = <<>>

\* a sequence of event numbers in strictly increasing order
Increasing(q) == \A i, j \in 1..Len(q) : i < j => q[i] < q[j]

\* C6: the events the queue accepted reach the dispatcher in the order of
\* their queue_event calls: none before an earlier one, none twice, and
\* each dispatched event is one the queue accepted.
C6_DispatchInEnqueueOrder ==
  /\ Increasing(accepted)
  /\ Increasing(dispatched)
  /\ \A k \in 1..Len(dispatched) :
        \E m \in 1..Len(accepted) : accepted[m] = dispatched[k]
  /\ \A k \in 1..Len(dispatched), m \in 1..Len(accepted) :
        (accepted[m] < dispatched[k] /\ accepted[m] \notin dropped) =>
           \E n \in 1..k : dispatched[n] = accepted[m]

\* events went through in order while another one was dropped and one
\* still waits in the queue
C6_Witness ==
  /\ Len(dispatched) >= 2
  /\ Len(accepted) > Len(dispatched)
  /\ dropped # {}

\* every task has ended and the dispatcher is idle
Quiescent ==
  /\ handler.pc = "idle"
  /\ \A i \in TaskIds : tasks[i].status # "pending"

\* C7: one press of a bound position and one or more coins, nothing failing
\* and nothing expiring: when everything has run there is exactly one row,
\* for the category bound at the position and the accumulated amount, and
\* both slots are empty.
C7_HappyPathOneDonation ==
  (/\ Quiescent
   /\ Cardinality({i \in TaskIds : tasks[i].kind = "category"}) = 1
   /\ hist.nCoin >= 1
   /\ hist.coinCents > 0
   /\ ~hist.commitFailed
   /\ ~hist.ttlExpired
   /\ connections = WebSockets)
  => /\ Len(donations) = 1
     /\ donations[1].amount = hist.coinCents
     /\ \A i \in TaskIds :
          tasks[i].kind = "category" =>
            donations[1].category_id = vote[tasks[i].option]
     /\ chosen_category = NoVal
     /\ total_donation_cents = NoVal

\* C8: after a commit that failed for a category and an amount, and no coin
\* value beyond that amount ever inserted, there is at most one row for that
\* category and amount.
C8_RetryGivesOneRow ==
  \A f \in hist.failedAtts :
     hist.coinCents = f.cents =>
       Cardinality({r \in Rows : /\ donations[r].position = f.position
                                 /\ donations[r].amount = f.cents}) <= 1

\* C9: a row whose writer has ended has had exactly one donation_created
\* envelope, carrying the row's vote, category and amount.
C9_OneEnvelopePerRow ==
  \A r \in Rows :
     /\ donations[r].envelopes <= 1
     /\ tasks[donations[r].task].status # "pending" =>
          /\ donations[r].envelopes = 1
          /\ donations[r].envelope =
               [vote_id |-> donations[r].vote_id,
                category_id |-> donations[r].category_id,
                amount_cents |-> donations[r].amount]

\* C10: when a send of the donation_created broadcast fails, the attempt
\* still ends normally: the row stays, both slots are cleared and the task
\* ends without an exception.
C10_BroadcastFailureKeepsDonation ==
  [][\A i \in TaskIds :
       (/\ tasks[i].status = "pending"
        /\ tasks[i].pc = "att_send"
        /\ tasks'[i].status \notin {"pending", "cancelled"})
       => /\ tasks'[i].status = "done"
          /\ Len(donations') = Len(donations)
          /\ donations'[tasks[i].row].amount = donations[tasks[i].row].amount
          /\ chosen_category' = NoVal
          /\ total_donation_cents' = NoVal]_vars

C10_Witness ==
  \E r \in Rows :
     /\ donations[r].sendFailed
     /\ tasks[donations[r].task].status = "done"
     /\ chosen_category = NoVal
     /\ total_donation_cents = NoVal

\* C11: when a broadcast has returned, every client of the snapshot taken at
\* its start was sent the envelope; the clients whose send failed are not in
\* the set of subscribers, the clients whose send succeeded got the envelope
\* exactly once and are still subscribed unless something else removed them,
\* and no client outside the snapshot got anything.
C11_BroadcastReachesSnapshot ==
  \A b \in 1..Len(broadcasts) :
    LET B == broadcasts[b] IN
    B.pc = "done" =>
      /\ B.todo = {}
      /\ B.failed \subseteq B.snap
      /\ B.failed \cap B.connAtReturn = {}
      /\ \A ws \in Clients :
           B.got[ws] = (IF ws \in B.snap \ B.failed THEN 1 ELSE 0)
      /\ \A ws \in B.snap \ B.failed :
           \/ ws \in B.connAtReturn
           \/ \E g \in gone : g.ws = ws /\ g.by # b

\* a broadcast over three clients returned after one send failed, one
\* succeeded, and one succeeded to a client that was disconnected meanwhile
C11_Witness ==
  \E b \in 1..Len(broadcasts) :
    LET B == broadcasts[b] IN
    /\ B.pc = "done"
    /\ Cardinality(B.snap) = 3
    /\ Cardinality(B.failed) = 1
    /\ \E ws \in B.snap \ B.failed : ws \notin B.connAtReturn
    /\ \E ws \in B.snap \ B.failed : ws \in B.connAtReturn

\* the events waiting in scheduled callbacks, and those in the queue
Scheduled == {ready[k].event : k \in 1..Len(ready)}
Queued ==
  IF event_queue = NoVal THEN {}
  ELSE {event_queue.items[k] : k \in 1..Len(event_queue.items)}
Elems(q) == {q[k] : k \in 1..Len(q)}

\* C12: an event offered to queue_event while the bridge is not running
\* (before start, or after stop) is dropped by that call: it is in no
\* scheduled callback and in no queue, and it is never dispatched, whatever
\* the bridge does later.
C12_IdleOfferIsDropped ==
  \A e \in idleOffers :
    /\ e \in dropped
    /\ e \notin Scheduled
    /\ e \notin Queued
    /\ e \notin Elems(accepted)
    /\ e \notin Elems(dispatched)

\* event 1 was offered before the first start and event 3 after a stop; the
\* bridge was started again, and events 2 and 4 were dispatched
C12_Witness ==
  /\ idleOffers = {1, 3}
  /\ dispatched = <<2, 4>>
  /\ starts = 2

\* the loop runs a callback that is bound to the live queue while it is full
PutOnFullQueue ==
  /\ ready # <<>>
  /\ ready' = Tail(ready)
  /\ event_queue # NoVal
  /\ event_queue.id = Head(ready).queue
  /\ Len(event_queue.items) = maxsize

\* C13: the queue never holds more than maxsize events; a put on a full
\* queue drops the event being put and leaves the queued events and their
\* order as they were; and queue_event can always be called, whatever the
\* queue holds (the calling thread never waits for room).
C13_QueueBoundedDropNewest ==
  /\ [](event_queue # NoVal => Len(event_queue.items) <= maxsize)
  /\ [][PutOnFullQueue =>
          /\ event_queue' = event_queue
          /\ Head(ready).event \in dropped'
          /\ accepted' = accepted]_vars
  /\ [](produced < MaxQueued => ENABLED queue_event)

\* the queue is full and an event was lost although the bridge was running
\* when it was offered and has not been stopped since
C13_Witness ==
  /\ event_queue # NoVal
  /\ Len(event_queue.items) = maxsize
  /\ starts = 1
  /\ \E e \in dropped : e \notin idleOffers /\ e > event_queue.items[maxsize]

\* the handlers registered with `on` for event type t of object o, in the
\* order of the calls
RECURSIVE RegisteredFor(_, _, _)
RegisteredFor(log, o, t) ==
  IF log = <<>> THEN <<>>
  ELSE (IF Head(log).obj = o /\ Head(log).type = t
        THEN <<Head(log).h>> ELSE <<>>) \o RegisteredFor(Tail(log), o, t)

\* the handlers called for event k, in the order of the calls
RECURSIVE CalledFor(_, _)
CalledFor(log, k) ==
  IF log = <<>> THEN <<>>
  ELSE (IF Head(log).event = k /\ Head(log).ph = "call"
        THEN <<Head(log).h>> ELSE <<>>) \o CalledFor(Tail(log), k)

IsPrefix(p, q) == Len(p) <= Len(q) /\ \A k \in 1..Len(p) : p[k] = q[k]

C15_RaiseDoesNotStopLoop ==
  (raisedFor # {} /\ consumer # NoVal) =>
    /\ consumer.pc \in {"get", "dispatch"}
    /\ (consumer.pc = "get" /\ event_queue.items # <<>>) => ENABLED ConsumerGet

\* the dispatch of event 1 raised; events 2 and 3 were dispatched after it
\* by the same consumer
C15_Witness ==
  /\ 1 \in raisedFor
  /\ dispatched = <<1, 2, 3>>
  /\ starts = 1
  /\ consumer # NoVal

\* the step is a call `op` of the registry's interface
Called(op) == result'.n # result.n /\ result'.op = op

\* C16: register of a component whose component_id is already registered
\* raises ValueError and changes nothing: the id stays bound to the
\* component registered before, and no field of any component changes, so
\* the rejected component is given no event callback.
C16_DuplicateRegisterRejected ==
  [][(Called("register") /\ components[component_id(result'.arg)] # None) =>
       /\ result'.out = "ValueError"
       /\ components' = components
       /\ comp' = comp]_vars

\* o2 was rejected because o1 holds the id: o1 is still registered and has
\* the callback, o2 has none
C16_Witness ==
  /\ result.op = "register"
  /\ result.arg = "o2"
  /\ result.out = "ValueError"
  /\ components["button"] = "o1"
  /\ comp["o1"].callback
  /\ ~comp["o2"].callback

\* C17: unregister(id) of a registered id returns True, removes the id and
\* nothing else, and leaves the component stopped if it was started;
\* unregister of an id that is not registered returns False and changes
\* nothing.
C17_UnregisterStopsAndRemoves ==
  [][Called("unregister") =>
       LET id == result'.arg
           o == components[id]
       IN  IF o # None
             THEN /\ result'.out = TRUE
                  /\ components' = [components EXCEPT ![id] = None]
                  /\ ~comp'[o].started
                  /\ \A p \in Objs \ {o} : comp'[p] = comp[p]
             ELSE /\ result'.out = FALSE
                  /\ components' = components
                  /\ comp' = comp]_vars

\* C18: no component is started unless registry.start has been called;
\* registry.start leaves every registered component started whose start()
\* returned; registry.stop leaves no registered component started.
C18_RegistryLifecycle ==
  /\ [](\A o \in Objs : comp[o].started => reg.everStarted)
  /\ [][Called("start") =>
          \A o \in Registered : result'.arg[o] = "ok" => comp'[o].started]_vars
  /\ [][Called("stop") => \A o \in Registered : ~comp'[o].started]_vars

\* C19: an update_vote that replaces the categories of the vote by a list
\* of the same length moves the donations of the vote that referenced the
\* old category of a position to the new category of that position, and
\* changes no other donation.
C19_PositionalMigration ==
  [][(vote' # vote /\ Len(vote') = Len(vote)) =>
       /\ Len(donations') = Len(donations)
       /\ \A r \in 1..Len(donations) :
            LET row == donations[r]
            IN  IF row.vote_id = 1 /\ Bound(vote, row.category_id)
                  THEN \A i \in 1..Len(vote) :
                         vote[i] = row.category_id =>
                           donations'[r] = [row EXCEPT !.category_id = vote'[i]]
                  ELSE donations'[r] = row]_vars

\* C20: a donation committed for a position carries the id of the category
\* bound at that position in the active vote when it is committed, whatever
\* edits were made before.
C20_CategoryOfPositionAtCommit ==
  \A r \in 1..Len(donations) :
    donations[r].viaRequest =>
      donations[r].committed_id = donations[r].boundAtCommit

\* the writer is answering a donation request in this step
WriterAnswers == request # NoVal /\ request' = NoVal

RECURSIVE AmountOf(_)
AmountOf(S) ==
  IF S = {} THEN 0
  ELSE LET r == CHOOSE x \in S : TRUE
       IN  donations[r].amount + AmountOf(S \ {r})

RECURSIVE SumOfCategories(_)
SumOfCategories(by_category) ==
  IF by_category = <<>> THEN 0
  ELSE Head(by_category).amount_cents + SumOfCategories(Tail(by_category))

\* the rows of the active vote for category c, and for any bound category
RowsOf(c) ==
  {r \in 1..Len(donations) :
     donations[r].vote_id = 1 /\ donations[r].category_id = c}
RowsOfBound == UNION {RowsOf(vote[k]) : k \in 1..Len(vote)}

C23_ActiveIsLatestInWindow ==
  active # NoVal =>
    LET t == active.t
        inside == {i \in 1..Len(votes) :
                     votes[i].start_time <= t /\ t <= votes[i].end_time}
    IN /\ active.vote_id # 0 =>
            /\ active.vote_id \in inside
            /\ \A j \in inside : j <= active.vote_id
       /\ active.vote_id = 0 <=> inside = {}

\* the windows of votes 1 and 2 contain the instant, the window of vote 3
\* does not, and vote 2 was returned
C23_Witness ==
  /\ active # NoVal
  /\ Len(votes) = 3
  /\ active.vote_id = 2
  /\ votes[1].start_time <= active.t /\ active.t <= votes[1].end_time
  /\ active.t < votes[3].start_time

\* C24: every row of the votes table has start_time < end_time, and a create
\* or update request that is answered with an error has committed nothing.
C24_StoredWindowsValid ==
  /\ [](\A i \in 1..Len(votes) : votes[i].start_time < votes[i].end_time)
  /\ [][answer'.n # answer.n /\ answer'.status = 400 =>
          votes' = votes /\ categories' = categories]_vars

\* C25: when every increment_nested call has returned, the nested value is
\* its initial value plus the sum of the amounts of all calls, and the value
\* a call returned is the value that call stored.
C25_NoLostIncrement ==
  /\ (\A t \in Threads : thread[t].pc = "idle") =>
       current(_store) = tally
  /\ \A t \in Threads :
       thread[t].pc = "idle" /\ thread[t].calls > 0 =>
         /\ thread[t].returned = thread[t].new_value
         /\ thread[t].returned = thread[t].current_value + thread[t].amount

\* every thread has made all its calls on a key that held 10 and all have
\* returned
C25_Witness ==
  /\ \A t \in Threads : thread[t].pc = "idle" /\ thread[t].calls = MaxCalls
  /\ _store.value = tally
  /\ tally > 10 + MaxCalls

\* C26: once the dispatcher has been stopped no debounce task is pending,
\* and after the shutdown has completed no slot is written and no donation
\* is committed.
C26_ShutdownCancelsDebounceTasks ==
  /\ [](lifespan # "running" =>
          \A i \in 1..Len(tasks) : tasks[i].status # "pending")
  /\ [][lifespan = "complete" =>
          /\ chosen_category' = chosen_category
          /\ total_donation_cents' = total_donation_cents
          /\ donations' = donations]_vars

\* the debounce tasks of one kind that are created, not finished and not
\* cancelled
ActiveTasks(kind) ==
  {i \in 1..Len(tasks) : tasks[i].kind = kind /\ tasks[i].status = "pending"}

\* C27: at most one category-debounce task and at most one coin-debounce
\* task is active, and the step that creates a debounce task leaves no older
\* task of its kind active, whichever button the older task was created for.
C27_OneActiveTaskPerKind ==
  /\ [](/\ Cardinality(ActiveTasks("category")) <= 1
        /\ Cardinality(ActiveTasks("coin")) <= 1)
  /\ [][Len(tasks') = Len(tasks) + 1 =>
          \A i \in 1..Len(tasks) :
             tasks'[i].kind = tasks'[Len(tasks')].kind =>
               tasks'[i].status # "pending"]_vars

\* a press on one button has cancelled the task of the other button while a
\* coin task is active as well
C27_Witness ==
  /\ \E i, j \in 1..Len(tasks) :
        /\ i < j
        /\ tasks[i].kind = "category" /\ tasks[j].kind = "category"
        /\ tasks[i].option # tasks[j].option
        /\ tasks[i].status = "cancelled" /\ tasks[j].status = "pending"
  /\ ActiveTasks("coin") # {}

\* the coin debounce window is open: the task of the last handled coin is
\* still in its asyncio.sleep and the sleep is not due
CoinWindowOpen ==
  /\ pending_donation_task # 0
  /\ tasks[pending_donation_task].status = "pending"
  /\ tasks[pending_donation_task].pc = "sleep"
  /\ now < tasks[pending_donation_task].wake

\* C28: no correlation attempt, the one at the end of a button debounce
\* window included, commits a donation while the coin debounce window is
\* open, so that the coins of one window are committed together as one
\* donation of their sum.
C28_NoCommitInOpenCoinWindow ==
  [][Len(donations') > Len(donations) => ~CoinWindowOpen]_vars

\* the configured pulse table {1: 10, 2: 20, 3: 50, 4: 100, 5: 200}
PulseTable == <<10, 20, 50, 100, 200>>

\* the cents of a pulse count, 0 for one that is not in the table
Mapped(n) == IF n \in DOMAIN PulseTable THEN PulseTable[n] ELSE 0

\* no debounce task has come as far as a correlation attempt, so nothing
\* has committed or reset the amount
NoAttemptYet ==
  \A i \in 1..Len(tasks) : tasks[i].pc \in {"sleep", "bc_poll", "bc_send"}

\* C29: handling coin_inserted(n) sets the pending amount to its previous
\* cents (0 when the slot is empty) plus the table's value for n, 0 for an n
\* that is not in the table, with the timestamp set to now; as long as
\* nothing has committed or reset the amount, it is the sum of the values of
\* the coins handled.
C29_CoinAddsMappedCents ==
  /\ [][hist'.nCoin = hist.nCoin + 1 =>
          total_donation_cents' =
            [amount |-> (IF total_donation_cents = NoVal THEN 0
                         ELSE total_donation_cents.amount)
                        + Mapped(hist'.pulse_count),
             timestamp |-> now]]_vars
  /\ [](NoAttemptYet /\ hist.nCoin > 0 =>
          total_donation_cents.amount = hist.coinCents)

\* two coins have been handled, the second with a pulse count that is not in
\* the table, and the amount is the 50 cents of the first
C29_Witness ==
  /\ NoAttemptYet
  /\ hist.nCoin = 2
  /\ hist.pulse_count = 6
  /\ total_donation_cents # NoVal
  /\ total_donation_cents.amount = 50

\* task i starts its correlation attempt in this step: the coin task leaves
\* its sleep, the category task leaves its broadcast
StartsAttempt(i) ==
  /\ tasks[i].status = "pending"
  /\ \/ tasks[i].kind = "coin" /\ tasks[i].pc = "sleep"
     \/ tasks[i].kind = "category" /\ tasks[i].pc \in {"bc_poll", "bc_send"}
  /\ tasks'[i].pc \in {"att_poll", "end"}

\* C30: a correlation attempt that finds chosen_category empty or older than
\* T_ttl returns with chosen_category cleared, commits no donation and
\* leaves the amount and the timestamp of total_donation_cents as they are.
C30_ExpiredCategoryOnlyClearsCategory ==
  [][\A i \in 1..Len(tasks) :
       (/\ StartsAttempt(i)
        /\ \/ chosen_category = NoVal
           \/ now - chosen_category.timestamp > T_ttl) =>
         /\ chosen_category' = NoVal
         /\ tasks'[i].pc = "end"
         /\ donations' = donations
         /\ total_donation_cents' = total_donation_cents]_vars

\* the attempt after a coin found the category older than T_ttl: the
\* category is cleared, the 50 cents and their timestamp stay, no row
C30_Witness ==
  /\ hist.ttlExpired
  /\ hist.nCoin = 1
  /\ chosen_category = NoVal
  /\ total_donation_cents # NoVal
  /\ total_donation_cents.amount = 50
  /\ total_donation_cents.timestamp < now
  /\ donations = <<>>
  /\ \A i \in 1..Len(tasks) : tasks[i].status = "done"

\* C31: a correlation attempt that finds chosen_category present and within
\* T_ttl, and total_donation_cents empty, with an amount <= 0 or older than
\* T_ttl, returns with the amount reset to (0, now), commits no donation and
\* leaves chosen_category as it is.
C31_BadAmountOnlyResetsAmount ==
  [][\A i \in 1..Len(tasks) :
       (/\ StartsAttempt(i)
        /\ chosen_category # NoVal
        /\ now - chosen_category.timestamp <= T_ttl
        /\ \/ total_donation_cents = NoVal
           \/ total_donation_cents.amount <= 0
           \/ now - total_donation_cents.timestamp > T_ttl) =>
         /\ total_donation_cents' = [amount |-> 0, timestamp |-> now]
         /\ tasks'[i].pc = "end"
         /\ donations' = donations
         /\ chosen_category' = chosen_category]_vars

\* the attempt of a button task found its fresh selection and an amount older
\* than T_ttl: the amount is reset at the time of the attempt, the selection
\* stays, no row
C31_Witness ==
  /\ hist.ttlExpired
  /\ hist.nCoin = 1
  /\ hist.pulse_count = 3
  /\ chosen_category # NoVal
  /\ chosen_category.timestamp = now
  /\ total_donation_cents = [amount |-> 0, timestamp |-> now]
  /\ donations = <<>>
  /\ \A i \in 1..Len(tasks) : tasks[i].status # "pending"

\* C32: a correlation attempt that passed the checks of both slots and then
\* finds no active vote, or no binding at the selected position, returns
\* with chosen_category cleared and the amount reset to (0, now), and commits
\* no donation.
C32_StaleSelectionResetsBothSlots ==
  [][\A i \in 1..Len(tasks) :
       (/\ tasks[i].status = "pending"
        /\ tasks[i].pc = "att_poll"
        /\ tasks'[i].pc # "att_poll"
        /\ \/ vote = <<>>
           \/ tasks[i].att.position >= Len(vote)) =>
         /\ chosen_category' = NoVal
         /\ total_donation_cents' = [amount |-> 0, timestamp |-> now]
         /\ tasks'[i].pc = "end"
         /\ donations' = donations]_vars

\* button 2 was selected and 50 cents were inserted while the vote has one
\* category: the attempt has cleared the selection and reset the amount
C32_Witness ==
  /\ vote = <<7>>
  /\ hist.staleReset
  /\ hist.coinCents = 50
  /\ chosen_category = NoVal
  /\ total_donation_cents = [amount |-> 0, timestamp |-> now]
  /\ donations = <<>>
  /\ \E i \in 1..Len(tasks) :
        /\ tasks[i].kind = "category" /\ tasks[i].option = 2
        /\ tasks[i].wrote

\* the handler invocations that have been started and have neither returned
\* nor raised
InProgress ==
  {i \in 1..Len(invocations) :
     /\ invocations[i].ph = "call"
     /\ \A j \in (i + 1)..Len(invocations) :
          ~(/\ invocations[j].ph \in {"return", "raise"}
            /\ invocations[j].h = invocations[i].h
            /\ invocations[j].event = invocations[i].event)}

\* C33: at most one handler invocation is in progress, and the dispatcher
\* calls a handler or takes an event from the queue only while none is.
C33_OneHandlerAtATime ==
  /\ [](Cardinality(InProgress) <= 1)
  /\ [][(\/ Len(taken') > Len(taken)
         \/ /\ Len(invocations') > Len(invocations)
            /\ invocations'[Len(invocations')].ph = "call") =>
          InProgress = {}]_vars

\* two events were taken, a handler ran for each of them, and a third
\* invocation is in progress
C33_Witness ==
  /\ Len(taken) = 2
  /\ Cardinality(InProgress) = 1
  /\ \E i, j \in 1..Len(invocations) :
        /\ invocations[i].event = 1 /\ invocations[i].ph \in {"return", "raise"}
        /\ invocations[j].event = 2 /\ invocations[j].ph \in {"return", "raise"}

\* the donation rows of a vote and their amounts
RowsOfVote(rows, vote_id) ==
  SelectSeq(rows, LAMBDA r : r.vote_id = vote_id)

\* the last request was an update_vote that replaced the categories
Replaced ==
  /\ migration # NoVal
  /\ migration.op = "update_vote"
  /\ migration.status = 200

C35_MigrationAndBindingsAtomic ==
  /\ []((/\ migration # NoVal
         /\ migration.op = "update_vote"
         /\ migration.status = 400) =>
          /\ donations = migration.rowsBefore
          /\ vote_category = migration.tableBefore)
  /\ [](Replaced =>
          /\ donations = migration.rows
          /\ vote_category = migration.table)
  /\ [][(txn # NoVal /\ txn' # NoVal) =>
          UNCHANGED <<donations, vote_category>>]_vars

C35_Witness ==
  /\ migration # NoVal
  /\ migration.op = "update_vote"
  /\ migration.status = 400
  /\ migration.rows # migration.rowsBefore
  /\ migration.table # migration.tableBefore
  /\ FirstDuplicate(migration.new) > Len(migration.new)

C37_MigrationKeepsDonationsBound ==
  /\ Replaced =>
       /\ Len(donations) = Len(migration.rowsBefore)
       /\ Len(RowsOfVote(donations, migration.vote_id))
            = Len(RowsOfVote(migration.rowsBefore, migration.vote_id))
       /\ SumAmounts(RowsOfVote(donations, migration.vote_id))
            = SumAmounts(RowsOfVote(migration.rowsBefore, migration.vote_id))
       /\ \A r \in 1..Len(donations) :
            /\ donations[r].vote_id = migration.rowsBefore[r].vote_id
            /\ donations[r].amount = migration.rowsBefore[r].amount
            /\ (/\ donations[r].vote_id = migration.vote_id
                /\ Bound(migration.old, migration.rowsBefore[r].category_id))
                 => Bound(categories_of(vote_category, migration.vote_id),
                          donations[r].category_id)
            /\ donations[r].vote_id # migration.vote_id =>
                 donations[r] = migration.rowsBefore[r]
  /\ (/\ migration # NoVal
      /\ migration.op = "update_vote"
      /\ migration.new = <<>>) =>
       /\ migration.status = 400
       /\ donations = migration.rowsBefore
       /\ vote_category = migration.tableBefore
       /\ votes = migration.votesBefore

C37_Witness ==
  /\ Replaced
  /\ migration.old = <<7, 9>>
  /\ migration.new = <<9, 11>>
  /\ Len(donations) = 2
  /\ migration.rowsBefore[1].category_id = 7
  /\ migration.rowsBefore[2].category_id = 9
  /\ donations[1].category_id = 11
  /\ donations[2].category_id = 11

\* C38: at most one consumer task drains the event queue at any time: a
\* consumer and a queue are created only while there is neither, the queue of
\* a running consumer is never replaced, and the events that are in the queue
\* when stop ends it are never dispatched, also after the next start
C38_OneConsumerOneQueue ==
  /\ [][starts' > starts => (consumer = NoVal /\ event_queue = NoVal)]_vars
  /\ [][(consumer # NoVal /\ consumer' # NoVal) =>
          event_queue'.id = event_queue.id]_vars
  /\ [][(consumer # NoVal /\ consumer' = NoVal) =>
          /\ event_queue' = NoVal
          /\ Elems(event_queue.items) \subseteq dropped']_vars
  /\ [](dropped \cap Elems(dispatched) = {})

C38_Witness ==
  /\ starts = 2
  /\ \E e \in dropped \cap Elems(accepted) :
       \E d \in Elems(dispatched) : d > e

\* this step ends the send of task i's donation_created envelope to ws, and
\* ws stays connected
DeliversCreated(i, ws) ==
  /\ i \in 1..Len(tasks)
  /\ tasks[i].status = "pending"
  /\ tasks[i].pc = "att_send"
  /\ ws \in tasks[i].snap
  /\ tasks'[i].pc # "att_send" \/ ws \notin tasks'[i].snap
  /\ ws \in connections'

\* the money_inserted envelope of the last coin the row includes is not
\* waiting to be sent to ws
MoneyInsertedSent(row, ws) ==
  ~(/\ handler.pc = "send"
    /\ ws \in handler.snap
    /\ row.lastCoin = hist.nCoin)

\* the task that wrote the selection the row used has sent its
\* category_chosen envelope to ws
CategoryChosenSent(row, ws) ==
  /\ row.selWriter # 0
  /\ tasks[row.selWriter].bcast
  /\ ~(/\ tasks[row.selWriter].pc = "bc_send"
       /\ ws \in tasks[row.selWriter].snap)

\* C39: when a donation_created envelope is delivered to a subscriber that
\* stays connected, the money_inserted envelopes of the coins of the donation
\* and the category_chosen envelope of its selection have been delivered to
\* that subscriber before
C39_CreatedAfterItsInputs ==
  [][\A i \in Tasks, ws \in WebSockets :
       DeliversCreated(i, ws) =>
         /\ MoneyInsertedSent(donations[tasks[i].row], ws)
         /\ CategoryChosenSent(donations[tasks[i].row], ws)]_vars

\* C40: while the bridge keeps running, every event accepted into the queue
\* is eventually passed to the dispatcher (a stop drops the events still
\* queued), and an event that waits behind one whose handler raised is
\* passed to the dispatcher as well
C40_AcceptedEventuallyDispatched ==
  /\ \A e \in 1..MaxQueued :
       (e \in Elems(accepted)) ~>
         (e \in Elems(dispatched) \/ e \in dropped)
  /\ \A e \in 1..MaxQueued :
       (raisedFor # {} /\ e \in Queued) ~>
         (e \in Elems(dispatched) \/ e \in dropped)

C40_Witness ==
  /\ starts = 1
  /\ consumer # NoVal
  /\ dropped = {}
  /\ Len(dispatched) = 3
  /\ dispatched[1] \in raisedFor
  /\ dispatched[2] \in raisedFor
  /\ dispatched[3] \notin raisedFor
  /\ consumer.pc = "get"

====
